---- MODULE Spec2Model ----
(***************************************************************************)
(* The solitaire rules engine (Klondike, Spider, FreeCell) and the move    *)
(* orchestration of GameController, as a state machine.                    *)
(*                                                                         *)
(* A card is a record [suit, rank, faceUp, id]; id stands for the identity *)
(* of the JavaScript Card object (Pile.indexOf compares by identity).      *)
(* A pile is the sequence of its cards, bottom first.  Indices into a pile *)
(* are 0-based as in the source; SubSeq calls convert.                     *)
(***************************************************************************)
EXTENDS Integers, Sequences, FiniteSets, TLC

\* ------------------------------------------------------------------ bounds

\* The deepest undo stack explored: a drag, a tap or a stock click is taken
\* only while fewer than MaxUndo entries are on the undo stack.
MaxUndo == 2

\* The deepest undo stack explored where the input layer is followed event
\* by event.
MaxInputUndo == 1

\* How many games createGame constructs in a session of the input layer
\* (the first at start-up, the others by the new-game button).
MaxGames == 2

\* How many render callbacks the model lets wait for one frame.
MaxScheduled == 2

\* ------------------------------------------------------- program constants

AceRank == 1
KingRank == 13
RunLength == 13
FoundationFull == 13

Min(a, b) == IF a < b THEN a ELSE b
Max(a, b) == IF a > b THEN a ELSE b

RECURSIVE Pow2(_)
Pow2(n) == IF n = 0 THEN 1 ELSE 2 * Pow2(n - 1)

\* -------------------------------------------------------------------- Card

AllSuits == <<"hearts", "diamonds", "clubs", "spades">>

NewCard(suit, rank, id) ==
  [suit |-> suit, rank |-> rank, faceUp |-> FALSE, id |-> id]

Color(card) ==
  IF card.suit = "hearts" \/ card.suit = "diamonds" THEN "red" ELSE "black"

\* The value of a card as snapshot() serialises it: identity is dropped.
CardValue(c) == [suit |-> c.suit, rank |-> c.rank, faceUp |-> c.faceUp]

\* -------------------------------------------------------------------- Pile

NoPile == <<"none", 0>>
NoCard == [suit |-> "none", rank |-> 0, faceUp |-> FALSE, id |-> 0]

PileType(pid) == pid[1]

IsEmpty(cs) == Len(cs) = 0

TopCard(cs) == IF Len(cs) > 0 THEN cs[Len(cs)] ELSE NoCard

Push(cs, card) == Append(cs, card)

PushManyReversed(cs, cards) ==
  cs \o [i \in 1..Len(cards) |-> cards[Len(cards) + 1 - i]]

\* pushMany(cards): for (const c of cards) this.cards.push(c)
PushMany(cs, cards) == cs \o cards

\* pop(): the pile without its last card (an empty pile stays empty).
PopRest(cs) == IF Len(cs) > 0 THEN SubSeq(cs, 1, Len(cs) - 1) ELSE cs

\* Array.prototype.splice(index) start position: a negative index counts
\* from the end, clamped to the array.
SpliceStart(cs, index) ==
  IF index < 0 THEN Max(Len(cs) + index, 0) ELSE Min(index, Len(cs))

\* takeFrom(index): the cards removed, and the cards left.
TakeFromTaken(cs, index) == SubSeq(cs, SpliceStart(cs, index) + 1, Len(cs))

TakeFromCopyRest(cs, index) == cs

TakeFromRest(cs, index) == SubSeq(cs, 1, SpliceStart(cs, index))

\* indexOf(card): the 0-based position of the card object, or -1.
IndexOf(cs, card) ==
  IF \E i \in 1..Len(cs) : cs[i].id = card.id
  THEN (CHOOSE i \in 1..Len(cs) :
          cs[i].id = card.id /\ \A j \in 1..(i - 1) : cs[j].id # card.id) - 1
  ELSE -1

\* cards.slice(index): the cards from a 0-based index to the end.
Slice(cs, index) == SubSeq(cs, index + 1, Len(cs))

SetFaceUp(card, up) == [card EXCEPT !.faceUp = up]

\* pile.topCard().faceUp = true
FlipTopUp(cs) == [cs EXCEPT ![Len(cs)] = SetFaceUp(cs[Len(cs)], TRUE)]

\* ------------------------------------------------------------ GameRegistry

GameIds ==
  {"klondike", "klondike-draw3", "spider-1", "spider-2", "spider-4", "freecell"}

\* Which rule class the registry entry constructs.
GameKind(g) ==
  CASE g \in {"klondike", "klondike-draw3"} -> "klondike"
    [] g \in {"spider-1", "spider-2", "spider-4"} -> "spider"
    [] g = "freecell" -> "freecell"

\* new KlondikeGame(1) / new KlondikeGame(3)
DrawCount(g) == IF g = "klondike-draw3" THEN 3 ELSE 1

\* new SpiderGame(1) / (2) / (4)
SuitCount(g) ==
  CASE g = "spider-1" -> 1
    [] g = "spider-2" -> 2
    [] OTHER -> 4

\* ---------------------------------------------------- Deck and setup()

PileRange(type, n) == [i \in 1..n |-> <<type, i - 1>>]

Stock == <<"stock", 0>>
Waste == <<"waste", 0>>

\* The piles of each variant in the order setup() adds them to the state
\* (Object.values(this.piles) iterates in this order).
KlondikePiles ==
  PileRange("tableau", 7) \o PileRange("foundation", 4) \o <<Stock>> \o <<Waste>>

SpiderPiles ==
  PileRange("tableau", 10) \o PileRange("foundation", 8) \o <<Stock>>

FreeCellPiles ==
  PileRange("tableau", 8) \o PileRange("freecell", 4) \o PileRange("foundation", 4)

PileOrder(g) ==
  CASE GameKind(g) = "klondike" -> KlondikePiles
    [] GameKind(g) = "spider" -> SpiderPiles
    [] GameKind(g) = "freecell" -> FreeCellPiles

PileIds(g) == {PileOrder(g)[i] : i \in 1..Len(PileOrder(g))}

\* getPilesByType(type), in registration order.
PilesByType(g, type) == SelectSeq(PileOrder(g), LAMBDA p : PileType(p) = type)

\* createStandard52(): suit-major, rank 1..13, every card face-down.  The id
\* of a card is its position in creation order.
CreateStandard52 ==
  [k \in 1..52 |-> NewCard(AllSuits[((k - 1) \div 13) + 1], ((k - 1) % 13) + 1, k)]

\* SpiderGame.setup(): 104 cards of the first suitCount suits of
\* ['spades', 'hearts', 'diamonds', 'clubs'], floor(8 / suitCount) decks each.
SpiderSuits == <<"spades", "hearts", "diamonds", "clubs">>

CreateSpiderDeck(suitCount) ==
  LET decksPerSuit == 8 \div suitCount
  IN  [k \in 1..(suitCount * decksPerSuit * 13) |->
         NewCard(SpiderSuits[((k - 1) \div (decksPerSuit * 13)) + 1],
                 ((k - 1) % 13) + 1, k)]

SpiderDeck1 == CreateSpiderDeck(1)
SpiderDeck2 == CreateSpiderDeck(2)
SpiderDeck4 == CreateSpiderDeck(4)

CreateDeck(g) ==
  CASE GameKind(g) = "spider" /\ SuitCount(g) = 1 -> SpiderDeck1
    [] GameKind(g) = "spider" /\ SuitCount(g) = 2 -> SpiderDeck2
    [] GameKind(g) = "spider" /\ SuitCount(g) = 4 -> SpiderDeck4
    [] OTHER -> CreateStandard52

DeckSize(g) == Len(CreateDeck(g))

\* shuffle(): Fisher-Yates can produce every permutation; perm is the one it
\* produced (position i of the shuffled deck holds created card perm[i]).
Shuffle(deck, perm) == [i \in 1..Len(deck) |-> deck[perm[i]]]

TableauCountSixEach(g, i) ==
  CASE GameKind(g) = "klondike" -> i + 1
    [] GameKind(g) = "spider" -> 6
    [] GameKind(g) = "freecell" -> IF i < 4 THEN 7 ELSE 6

\* How many cards setup() deals to tableau pile i (0-based).
TableauCount(g, i) ==
  CASE GameKind(g) = "klondike" -> i + 1
    [] GameKind(g) = "spider" -> IF i < 4 THEN 6 ELSE 5
    [] GameKind(g) = "freecell" -> IF i < 4 THEN 7 ELSE 6

DealtFaceUpTopOnly(g, j, count) == j = count - 1

\* card.faceUp as setup() sets it for card j (0-based) of a dealt tableau pile.
DealtFaceUp(g, j, count) ==
  IF GameKind(g) = "freecell" THEN TRUE ELSE j = count - 1

\* deck.deal(count) for tableau piles 0..i-1 has consumed this many cards.
RECURSIVE DealtBefore(_, _)
DealtBefore(g, i) ==
  IF i = 0 THEN 0 ELSE DealtBefore(g, i - 1) + TableauCount(g, i - 1)

\* setup(): the piles after dealing the shuffled deck.
Setup(g, deck) ==
  LET nTab == Len(PilesByType(g, "tableau"))
      dealt == DealtBefore(g, nTab)
  IN  [p \in PileIds(g) |->
         CASE PileType(p) = "tableau" ->
                LET count == Min(TableauCount(g, p[2]),
                                 Max(Len(deck) - DealtBefore(g, p[2]), 0))
                IN  [j \in 1..count |->
                       SetFaceUp(deck[DealtBefore(g, p[2]) + j],
                                 DealtFaceUp(g, j - 1, count))]
           [] PileType(p) = "stock" -> SubSeq(deck, dealt + 1, Len(deck))
           [] OTHER -> <<>>]

\* ---------------------------------------------------------- KlondikeGame

\* The first pile of seq (registration order) whose flag is set, or NoPile:
\* `for (const p of seq) if (test(p)) return p; return null` and
\* `seq.find(test)`.
RECURSIVE FirstTrue(_, _)
FirstTrue(flags, i) ==
  IF i > Len(flags) THEN 0
  ELSE IF flags[i] THEN i
  ELSE FirstTrue(flags, i + 1)

FirstPile(seq, flags) ==
  LET i == FirstTrue(flags, 1)
  IN  IF i = 0 THEN NoPile ELSE seq[i]

FoundationAcceptsAnySuit(P, cards, to) ==
  LET bottomCard == cards[1]
      top == TopCard(P[to])
  IN  IF Len(cards) # 1 THEN FALSE
      ELSE IF IsEmpty(P[to]) THEN bottomCard.rank = AceRank
      ELSE bottomCard.rank = top.rank + 1

\* The single-card ascending same-suit rule of a foundation target.
FoundationAccepts(P, cards, to) ==
  LET bottomCard == cards[1]
      top == TopCard(P[to])
  IN  IF Len(cards) # 1 THEN FALSE
      ELSE IF IsEmpty(P[to]) THEN bottomCard.rank = AceRank
      ELSE bottomCard.suit = top.suit /\ bottomCard.rank = top.rank + 1

KlondikeCanMoveAnyOnEmpty(P, cards, from, to) ==
  IF Len(cards) = 0 THEN FALSE
  ELSE IF from = to THEN FALSE
  ELSE IF PileType(to) = "foundation" THEN FoundationAccepts(P, cards, to)
  ELSE IF PileType(to) = "tableau" THEN
    LET bottomCard == cards[1]
        top == TopCard(P[to])
    IN  IF IsEmpty(P[to]) THEN TRUE
        ELSE Color(bottomCard) # Color(top) /\ bottomCard.rank = top.rank - 1
  ELSE FALSE

\* KlondikeGame.canMove(cards, fromPile, toPile)
KlondikeCanMove(P, cards, from, to) ==
  IF Len(cards) = 0 THEN FALSE
  ELSE IF from = to THEN FALSE
  ELSE IF PileType(to) = "foundation" THEN FoundationAccepts(P, cards, to)
  ELSE IF PileType(to) = "tableau" THEN
    LET bottomCard == cards[1]
        top == TopCard(P[to])
    IN  IF IsEmpty(P[to]) THEN bottomCard.rank = KingRank
        ELSE Color(bottomCard) # Color(top) /\ bottomCard.rank = top.rank - 1
  ELSE FALSE

\* onMove of Klondike (and the first half of Spider's): flip the card the
\* move exposed on a source tableau pile.
FlipExposedNever(P, from) == P

FlipExposed(P, from) ==
  IF from # NoPile /\ PileType(from) = "tableau" /\ ~IsEmpty(P[from])
     /\ ~TopCard(P[from]).faceUp
  THEN [P EXCEPT ![from] = FlipTopUp(P[from])]
  ELSE P

KlondikeOnMove(P, cards, from, to) == FlipExposed(P, from)

\* while (!waste.isEmpty()) { card = waste.pop(); card.faceUp = false;
\*                            stock.push(card); }
RecycleLoopKeepOrder(stock, waste) ==
  [stock |-> stock \o [i \in 1..Len(waste) |-> SetFaceUp(waste[i], FALSE)],
   waste |-> <<>>]

\* while (!waste.isEmpty()) { card = waste.pop(); card.faceUp = false;
\*                            stock.push(card); }

RECURSIVE RecycleLoop(_, _)
RecycleLoop(stock, waste) ==
  IF IsEmpty(waste) THEN [stock |-> stock, waste |-> waste]
  ELSE RecycleLoop(Push(stock, SetFaceUp(TopCard(waste), FALSE)), PopRest(waste))

DrawLoopKeepOrder(stock, waste, count) ==
  [stock |-> SubSeq(stock, 1, Len(stock) - count),
   waste |-> waste \o [i \in 1..count |->
                         SetFaceUp(stock[Len(stock) - count + i], TRUE)]]

\* for (i = 0; i < count; i++) { card = stock.pop(); card.faceUp = true;
\*                               waste.push(card); }
RECURSIVE DrawLoop(_, _, _)
DrawLoop(stock, waste, count) ==
  IF count = 0 THEN [stock |-> stock, waste |-> waste]
  ELSE DrawLoop(PopRest(stock), Push(waste, SetFaceUp(TopCard(stock), TRUE)),
                count - 1)

KlondikeOnStockClick(g, P) ==
  LET r == IF IsEmpty(P[Stock]) THEN RecycleLoop(P[Stock], P[Waste])
           ELSE DrawLoop(P[Stock], P[Waste], Min(DrawCount(g), Len(P[Stock])))
  IN  [P EXCEPT ![Stock] = r.stock, ![Waste] = r.waste]

\* ------------------------------------------------------------ SpiderGame

IsValidSequenceAnySuit(cards) ==
  \A i \in 2..Len(cards) : cards[i].rank = cards[i - 1].rank - 1

\* _isValidSequence(cards): same suit, rank descending by one.
IsValidSequence(cards) ==
  \A i \in 2..Len(cards) :
     cards[i].suit = cards[i - 1].suit /\ cards[i].rank = cards[i - 1].rank - 1

SpiderCanMoveAnyTarget(P, cards, from, to) ==
  IF Len(cards) = 0 THEN FALSE
  ELSE IF from = to THEN FALSE
  ELSE IF ~IsValidSequence(cards) THEN FALSE
  ELSE IF IsEmpty(P[to]) THEN TRUE
  ELSE cards[1].rank = TopCard(P[to]).rank - 1

SpiderCanMove(P, cards, from, to) ==
  IF Len(cards) = 0 THEN FALSE
  ELSE IF from = to THEN FALSE
  ELSE IF PileType(to) # "tableau" THEN FALSE
  ELSE IF ~IsValidSequence(cards) THEN FALSE
  ELSE IF IsEmpty(P[to]) THEN TRUE
  ELSE cards[1].rank = TopCard(P[to]).rank - 1

\* The test of _checkCompleteSequence: the topmost 13 cards are face-up, of
\* the suit of the first of them, and rank 13 - i at offset i.
HasCompleteRun(cs) ==
  /\ Len(cs) >= RunLength
  /\ LET start == Len(cs) - RunLength
     IN  \A i \in 0..(RunLength - 1) :
            LET card == cs[start + i + 1]
            IN  card.faceUp /\ card.suit = cs[start + 1].suit
                /\ card.rank = KingRank - i

\* _checkCompleteSequence(pile)
CheckCompleteSequence(g, P, pile) ==
  IF ~HasCompleteRun(P[pile]) THEN P
  ELSE
    LET start == Len(P[pile]) - RunLength
        foundations == PilesByType(g, "foundation")
        foundation ==
          FirstPile(foundations,
                    [k \in 1..Len(foundations) |-> IsEmpty(P[foundations[k]])])
    IN  IF foundation = NoPile THEN P
        ELSE
          LET rest == TakeFromRest(P[pile], start)
              moved == [P EXCEPT
                          ![foundation] =
                             PushMany(P[foundation], TakeFromTaken(P[pile], start)),
                          ![pile] = rest]
          IN  IF ~IsEmpty(rest) /\ ~TopCard(rest).faceUp
              THEN [moved EXCEPT ![pile] = FlipTopUp(rest)]
              ELSE moved

SpiderOnMove(g, P, cards, from, to) ==
  CheckCompleteSequence(g, FlipExposed(P, from), to)

\* The deal loop stopping one tableau pile short.
RECURSIVE DealLoopOneShort(_, _, _)
DealLoopOneShort(P, tableauPiles, i) ==
  IF i >= Len(tableauPiles) \/ IsEmpty(P[Stock]) THEN P
  ELSE DealLoopOneShort(
         [P EXCEPT ![Stock] = PopRest(P[Stock]),
                   ![tableauPiles[i]] =
                     Push(P[tableauPiles[i]], SetFaceUp(TopCard(P[Stock]), TRUE))],
         tableauPiles, i + 1)

\* for (const pile of tableauPiles) { if (stock.isEmpty()) break;
\*   card = stock.pop(); card.faceUp = true; pile.push(card); }
RECURSIVE DealLoop(_, _, _)
DealLoop(P, tableauPiles, i) ==
  IF i > Len(tableauPiles) \/ IsEmpty(P[Stock]) THEN P
  ELSE DealLoop([P EXCEPT
                   ![Stock] = PopRest(P[Stock]),
                   ![tableauPiles[i]] =
                      Push(P[tableauPiles[i]], SetFaceUp(TopCard(P[Stock]), TRUE))],
                tableauPiles, i + 1)

\* for (const pile of tableauPiles) this._checkCompleteSequence(pile);
RECURSIVE CheckLoop(_, _, _, _)
CheckLoop(g, P, tableauPiles, i) ==
  IF i > Len(tableauPiles) THEN P
  ELSE CheckLoop(g, CheckCompleteSequence(g, P, tableauPiles[i]),
                 tableauPiles, i + 1)

SpiderOnStockClickNoGuard(g, P) ==
  LET tableauPiles == PilesByType(g, "tableau")
  IN  IF IsEmpty(P[Stock]) THEN P
      ELSE CheckLoop(g, DealLoop(P, tableauPiles, 1), tableauPiles, 1)

SpiderOnStockClickNoCheck(g, P) ==
  LET tableauPiles == PilesByType(g, "tableau")
  IN  IF IsEmpty(P[Stock]) THEN P
      ELSE IF \E i \in 1..Len(tableauPiles) : IsEmpty(P[tableauPiles[i]]) THEN P
      ELSE DealLoop(P, tableauPiles, 1)

\* SpiderGame.onStockClick()
SpiderOnStockClick(g, P) ==
  LET tableauPiles == PilesByType(g, "tableau")
  IN  IF IsEmpty(P[Stock]) THEN P
      ELSE IF \E i \in 1..Len(tableauPiles) : IsEmpty(P[tableauPiles[i]]) THEN P
      ELSE CheckLoop(g, DealLoop(P, tableauPiles, 1), tableauPiles, 1)

\* ---------------------------------------------------------- FreeCellGame

CountEmpty(P, seq) == Cardinality({i \in 1..Len(seq) : IsEmpty(P[seq[i]])})

MaxMovableCountingTarget(g, P, targetPile) ==
  (1 + CountEmpty(P, PilesByType(g, "freecell")))
    * Pow2(CountEmpty(P, PilesByType(g, "tableau")))

\* _maxMovable(targetPile): (1 + freeCells) * 2^emptyTableau
MaxMovable(g, P, targetPile) ==
  LET freeCells == CountEmpty(P, PilesByType(g, "freecell"))
      emptyTableau ==
        CountEmpty(P, SelectSeq(PilesByType(g, "tableau"),
                                LAMBDA p : p # targetPile))
  IN  (1 + freeCells) * Pow2(emptyTableau)

IsAlternatingRunAnyRank(cards) ==
  \A i \in 2..Len(cards) : Color(cards[i]) # Color(cards[i - 1])

\* The alternating-colour descending test of FreeCell's tableau branch.
IsAlternatingRun(cards) ==
  \A i \in 2..Len(cards) :
     Color(cards[i]) # Color(cards[i - 1]) /\ cards[i].rank = cards[i - 1].rank - 1

FreeCellCanMoveOntoFullCell(g, P, cards, from, to) ==
  IF Len(cards) = 0 THEN FALSE
  ELSE IF from = to THEN FALSE
  ELSE IF PileType(to) = "foundation" THEN FoundationAccepts(P, cards, to)
  ELSE IF PileType(to) = "freecell" THEN Len(cards) = 1
  ELSE IF PileType(to) = "tableau" THEN
    IF Len(cards) > MaxMovable(g, P, to) THEN FALSE
    ELSE IF ~IsAlternatingRun(cards) THEN FALSE
    ELSE IF IsEmpty(P[to]) THEN TRUE
    ELSE Color(cards[1]) # Color(TopCard(P[to]))
         /\ cards[1].rank = TopCard(P[to]).rank - 1
  ELSE FALSE

FreeCellCanMove(g, P, cards, from, to) ==
  IF Len(cards) = 0 THEN FALSE
  ELSE IF from = to THEN FALSE
  ELSE IF PileType(to) = "foundation" THEN FoundationAccepts(P, cards, to)
  ELSE IF PileType(to) = "freecell" THEN Len(cards) = 1 /\ IsEmpty(P[to])
  ELSE IF PileType(to) = "tableau" THEN
    IF Len(cards) > MaxMovable(g, P, to) THEN FALSE
    ELSE IF ~IsAlternatingRun(cards) THEN FALSE
    ELSE IF IsEmpty(P[to]) THEN TRUE
    ELSE Color(cards[1]) # Color(TopCard(P[to]))
         /\ cards[1].rank = TopCard(P[to]).rank - 1
  ELSE FALSE

\* ------------------------------------------- the GameRule contract (BaseGame)

CanMove(g, P, cards, from, to) ==
  CASE GameKind(g) = "klondike" -> KlondikeCanMove(P, cards, from, to)
    [] GameKind(g) = "spider" -> SpiderCanMove(P, cards, from, to)
    [] GameKind(g) = "freecell" -> FreeCellCanMove(g, P, cards, from, to)

OnMove(g, P, cards, from, to) ==
  CASE GameKind(g) = "klondike" -> KlondikeOnMove(P, cards, from, to)
    [] GameKind(g) = "spider" -> SpiderOnMove(g, P, cards, from, to)
    [] GameKind(g) = "freecell" -> P

\* FreeCellGame does not override onStockClick: BaseGame's does nothing.
OnStockClick(g, P) ==
  CASE GameKind(g) = "klondike" -> KlondikeOnStockClick(g, P)
    [] GameKind(g) = "spider" -> SpiderOnStockClick(g, P)
    [] GameKind(g) = "freecell" -> P

IsWonAnyFull(g, P) ==
  LET fs == PilesByType(g, "foundation")
  IN  \E i \in 1..Len(fs) : Len(P[fs[i]]) = FoundationFull

IsWon(g, P) ==
  LET fs == PilesByType(g, "foundation")
  IN  \A i \in 1..Len(fs) : Len(P[fs[i]]) = FoundationFull

\* findAutoMoveToFoundation(card): the first foundation, in registration
\* order, for which canMove([card], null, foundation) holds.
FindAutoMoveToFoundation(g, P, card) ==
  LET foundations == PilesByType(g, "foundation")
  IN  FirstPile(foundations,
                [k \in 1..Len(foundations) |->
                   CanMove(g, P, <<card>>, NoPile, foundations[k])])

\* -------------------------------------------------------------- GameState

\* snapshot(): for every pile its type and the values of its cards in order.
\* (The JSON text is modelled by the value it encodes.)
Snapshot(P) ==
  [p \in DOMAIN P |->
     [type |-> PileType(p),
      cards |-> [i \in 1..Len(P[p]) |-> CardValue(P[p][i])]]]

\* pushUndo(): { piles: snapshot(), moveCount }
PushUndo(undoStack, P, moveCount) ==
  Append(undoStack, [piles |-> Snapshot(P), moveCount |-> moveCount])

CanUndo(undoStack) == Len(undoStack) > 0

\* --------------------------------------------------------- GameController

PileIndex(g, pid) == CHOOSE i \in 1..Len(PileOrder(g)) : PileOrder(g)[i] = pid

\* _restoreSnapshot builds a new Card object for every card of the snapshot.
\* Every Card object a pile held before is dropped, so the new objects are
\* named by where they are put; the names lie above those setup() gave.
FreshId(g, pid, i) == DeckSize(g) * PileIndex(g, pid) + i

RestoredCardFaceDown(g, pid, i, c) ==
  [suit |-> c.suit, rank |-> c.rank, faceUp |-> FALSE, id |-> FreshId(g, pid, i)]

\* card = new Card(c.suit, c.rank); card.faceUp = c.faceUp
RestoredCard(g, pid, i, c) ==
  [suit |-> c.suit, rank |-> c.rank, faceUp |-> c.faceUp, id |-> FreshId(g, pid, i)]

RestorePilesTableauOnly(g, P, pilesData) ==
  [p \in DOMAIN P |->
     IF p \in DOMAIN pilesData /\ PileType(p) = "tableau"
     THEN [i \in 1..Len(pilesData[p].cards) |->
             RestoredCard(g, p, i, pilesData[p].cards[i])]
     ELSE P[p]]

\* _restoreSnapshot(snapshot): the piles afterwards (a pile the snapshot does
\* not name keeps its cards; an entry naming no pile of the game is skipped).
RestorePiles(g, P, pilesData) ==
  [p \in DOMAIN P |->
     IF p \in DOMAIN pilesData
     THEN [i \in 1..Len(pilesData[p].cards) |->
             RestoredCard(g, p, i, pilesData[p].cards[i])]
     ELSE P[p]]

\* The part of the game state the orchestrator's operations change.
GameOf(P, undoStack, moveCount, won) ==
  [piles |-> P, undoStack |-> undoStack, moveCount |-> moveCount, won |-> won]

TryMoveOpPushAfter(g, S, cards, from, to) ==
  IF ~CanMove(g, S.piles, cards, from, to)
  THEN [game |-> S, ret |-> FALSE, moved |-> <<>>]
  ELSE
    LET cardIndex == IndexOf(S.piles[from], cards[1])
        moved == TakeFromTaken(S.piles[from], cardIndex)
        P1 == [S.piles EXCEPT ![from] = TakeFromRest(S.piles[from], cardIndex)]
        P2 == [P1 EXCEPT ![to] = PushMany(P1[to], moved)]
        P3 == OnMove(g, P2, moved, from, to)
        undoStack == PushUndo(S.undoStack, P3, S.moveCount)
    IN  [game |-> GameOf(P3, undoStack, S.moveCount + 1,
                         IF IsWon(g, P3) THEN TRUE ELSE S.won),
         ret |-> TRUE, moved |-> moved]

TryMoveOpPushFirst(g, S, cards, from, to) ==
  LET undoStack == PushUndo(S.undoStack, S.piles, S.moveCount)
  IN  IF ~CanMove(g, S.piles, cards, from, to)
      THEN [game |-> GameOf(S.piles, undoStack, S.moveCount, S.won),
            ret |-> FALSE, moved |-> <<>>]
      ELSE
        LET cardIndex == IndexOf(S.piles[from], cards[1])
            moved == TakeFromTaken(S.piles[from], cardIndex)
            P1 == [S.piles EXCEPT ![from] = TakeFromRest(S.piles[from], cardIndex)]
            P2 == [P1 EXCEPT ![to] = PushMany(P1[to], moved)]
            P3 == OnMove(g, P2, moved, from, to)
        IN  [game |-> GameOf(P3, undoStack, S.moveCount + 1,
                             IF IsWon(g, P3) THEN TRUE ELSE S.won),
             ret |-> TRUE, moved |-> moved]

TryMoveOpWinUnchecked(g, S, cards, from, to) ==
  IF ~CanMove(g, S.piles, cards, from, to)
  THEN [game |-> S, ret |-> FALSE, moved |-> <<>>]
  ELSE
    LET undoStack == PushUndo(S.undoStack, S.piles, S.moveCount)
        cardIndex == IndexOf(S.piles[from], cards[1])
        moved == TakeFromTaken(S.piles[from], cardIndex)
        P1 == [S.piles EXCEPT ![from] = TakeFromRest(S.piles[from], cardIndex)]
        P2 == [P1 EXCEPT ![to] = PushMany(P1[to], moved)]
        P3 == OnMove(g, P2, moved, from, to)
    IN  [game |-> GameOf(P3, undoStack, S.moveCount + 1, S.won),
         ret |-> TRUE, moved |-> moved]

\* tryMove(cards, fromPile, toPile): the state afterwards, the value returned
\* and the cards it transferred.
TryMoveOp(g, S, cards, from, to) ==
  IF ~CanMove(g, S.piles, cards, from, to)
  THEN [game |-> S, ret |-> FALSE, moved |-> <<>>]
  ELSE
    LET undoStack == PushUndo(S.undoStack, S.piles, S.moveCount)
        cardIndex == IndexOf(S.piles[from], cards[1])
        moved == TakeFromTaken(S.piles[from], cardIndex)
        P1 == [S.piles EXCEPT ![from] = TakeFromRest(S.piles[from], cardIndex)]
        P2 == [P1 EXCEPT ![to] = PushMany(P1[to], moved)]
        P3 == OnMove(g, P2, moved, from, to)
    IN  [game |-> GameOf(P3, undoStack, S.moveCount + 1,
                         IF IsWon(g, P3) THEN TRUE ELSE S.won),
         ret |-> TRUE, moved |-> moved]

AutoMoveTargetTableauFirst(g, P, pile, cardIndex) ==
  LET card == P[pile][cardIndex + 1]
      cards == Slice(P[pile], cardIndex)
      foundation ==
        IF cardIndex = Len(P[pile]) - 1
        THEN FindAutoMoveToFoundation(g, P, card) ELSE NoPile
      tableauPiles == PilesByType(g, "tableau")
      freeCells == PilesByType(g, "freecell")
      tableau ==
        FirstPile(tableauPiles,
                  [k \in 1..Len(tableauPiles) |->
                     tableauPiles[k] # pile
                     /\ CanMove(g, P, cards, pile, tableauPiles[k])])
      freecell ==
        IF Len(cards) = 1
        THEN FirstPile(freeCells,
                       [k \in 1..Len(freeCells) |->
                          freeCells[k] # pile
                          /\ CanMove(g, P, cards, pile, freeCells[k])])
        ELSE NoPile
  IN  IF tableau # NoPile THEN tableau
      ELSE IF foundation # NoPile THEN foundation
      ELSE freecell

\* The target tryAutoMove picks for pile.cards[cardIndex], or NoPile.
AutoMoveTarget(g, P, pile, cardIndex) ==
  LET card == P[pile][cardIndex + 1]
      cards == Slice(P[pile], cardIndex)
      foundation ==
        IF cardIndex = Len(P[pile]) - 1
        THEN FindAutoMoveToFoundation(g, P, card) ELSE NoPile
      tableauPiles == PilesByType(g, "tableau")
      freeCells == PilesByType(g, "freecell")
      tableau ==
        FirstPile(tableauPiles,
                  [k \in 1..Len(tableauPiles) |->
                     tableauPiles[k] # pile
                     /\ CanMove(g, P, cards, pile, tableauPiles[k])])
      freecell ==
        IF Len(cards) = 1
        THEN FirstPile(freeCells,
                       [k \in 1..Len(freeCells) |->
                          freeCells[k] # pile
                          /\ CanMove(g, P, cards, pile, freeCells[k])])
        ELSE NoPile
  IN  IF foundation # NoPile THEN foundation
      ELSE IF tableau # NoPile THEN tableau
      ELSE freecell

\* tryAutoMove(pile, cardIndex)
TryAutoMoveOp(g, S, pile, cardIndex) ==
  IF cardIndex < 0 \/ cardIndex >= Len(S.piles[pile])
  THEN [game |-> S, ret |-> FALSE, moved |-> <<>>, to |-> NoPile]
  ELSE IF ~S.piles[pile][cardIndex + 1].faceUp
  THEN [game |-> S, ret |-> FALSE, moved |-> <<>>, to |-> NoPile]
  ELSE
    LET target == AutoMoveTarget(g, S.piles, pile, cardIndex)
        cards == IF target # NoPile /\ PileType(target) = "foundation"
                 THEN <<S.piles[pile][cardIndex + 1]>>
                 ELSE Slice(S.piles[pile], cardIndex)
    IN  IF target = NoPile
        THEN [game |-> S, ret |-> FALSE, moved |-> <<>>, to |-> NoPile]
        ELSE TryMoveOp(g, S, cards, pile, target) @@ [to |-> target]

StockClickOpUncounted(g, S) ==
  GameOf(OnStockClick(g, S.piles),
         PushUndo(S.undoStack, S.piles, S.moveCount),
         S.moveCount, S.won)

\* onStockClick(): pushUndo, the variant's onStockClick, moveCount++.
StockClickOp(g, S) ==
  GameOf(OnStockClick(g, S.piles),
         PushUndo(S.undoStack, S.piles, S.moveCount),
         S.moveCount + 1, S.won)

UndoOpClearsWon(g, S) ==
  IF ~CanUndo(S.undoStack) THEN S
  ELSE
    LET snapshot == S.undoStack[Len(S.undoStack)]
    IN  GameOf(RestorePiles(g, S.piles, snapshot.piles),
               SubSeq(S.undoStack, 1, Len(S.undoStack) - 1),
               snapshot.moveCount, FALSE)

UndoOpKeepCount(g, S) ==
  IF ~CanUndo(S.undoStack) THEN S
  ELSE
    LET snapshot == S.undoStack[Len(S.undoStack)]
    IN  GameOf(RestorePiles(g, S.piles, snapshot.piles),
               SubSeq(S.undoStack, 1, Len(S.undoStack) - 1),
               S.moveCount, S.won)

\* undo(): nothing without an entry; else pop and _restoreSnapshot.
UndoOp(g, S) ==
  IF ~CanUndo(S.undoStack) THEN S
  ELSE
    LET snapshot == S.undoStack[Len(S.undoStack)]
    IN  GameOf(RestorePiles(g, S.piles, snapshot.piles),
               SubSeq(S.undoStack, 1, Len(S.undoStack) - 1),
               snapshot.moveCount, S.won)

\* ------------------------------------------- how a game comes into being

\* A step of an earlier session: a stock click, or a drag of the cards of
\* pile `from` from cardIndex up onto pile `to`.
StockOp == [op |-> "stock", from |-> NoPile, cardIndex |-> 0, to |-> NoPile]
MoveOp(from, cardIndex, to) ==
  [op |-> "move", from |-> from, cardIndex |-> cardIndex, to |-> to]

\* createGame(id): construct, setup() with the shuffle's permutation.
CreateGame(g, perm) ==
  GameOf(Setup(g, Shuffle(CreateDeck(g), perm)), <<>>, 0, FALSE)

\* The session that wrote a save: the orchestrator's operations applied in
\* turn to a fresh game.
RECURSIVE Replay(_, _, _)
Replay(g, S, script) ==
  IF Len(script) = 0 THEN S
  ELSE LET o == script[1]
           r == IF o.op = "stock"
                THEN [game |-> StockClickOp(g, S), ret |-> TRUE]
                ELSE TryMoveOp(g, S, Slice(S.piles[o.from], o.cardIndex),
                               o.from, o.to)
       IN  IF r.ret THEN Replay(g, r.game, Tail(script))
           ELSE Replay(g, S, Tail(script))

\* const APP_VERSION
AppVersion == "v24"

\* localStorage's 'pasianssi-save' item: no record, or the one record.
NoSave == <<>>

\* _saveGame(): the record written after every operation.  (The JSON text
\* is modelled by the value it encodes; elapsed time is left out.)
SaveRecord(g, S) ==
  [version |-> AppVersion, gameId |-> g, piles |-> Snapshot(S.piles),
   moveCount |-> S.moveCount, won |-> S.won]

LoadSaveAcceptsWon(storage) ==
  IF storage = NoSave THEN [data |-> NoSave, storage |-> storage]
  ELSE LET data == storage[1]
       IN  IF data.gameId = "" THEN [data |-> NoSave, storage |-> storage]
           ELSE IF data.version # "" /\ data.version # AppVersion
           THEN [data |-> NoSave, storage |-> NoSave]
           ELSE [data |-> storage, storage |-> storage]

\* _loadSave(): the record init() gets (none: null) and what the storage
\* holds afterwards.  A record without a game id reads as none, as does a
\* won game's; a record of another version is removed; a record without a
\* version (version "") passes.
LoadSave(storage) ==
  IF storage = NoSave THEN [data |-> NoSave, storage |-> storage]
  ELSE LET data == storage[1]
       IN  IF data.gameId = "" THEN [data |-> NoSave, storage |-> storage]
           ELSE IF data.won THEN [data |-> NoSave, storage |-> storage]
           ELSE IF data.version # "" /\ data.version # AppVersion
           THEN [data |-> NoSave, storage |-> NoSave]
           ELSE [data |-> storage, storage |-> storage]

\* _restoreGame(saved): createGame, then _restoreSnapshot and won.
RestoreGame(saved, perm) ==
  LET fresh == CreateGame(saved.gameId, perm)
  IN  GameOf(RestorePiles(saved.gameId, fresh.piles, saved.piles),
             fresh.undoStack, saved.moveCount, saved.won)

\* The end of tryMove: nothing when it returned false; else _onWin() (which
\* clears the save) if isWon(), else _saveGame().
SavedAfterMove(g, r, storage) ==
  IF ~r.ret THEN storage
  ELSE IF IsWon(g, r.game.piles) THEN NoSave
  ELSE <<SaveRecord(g, r.game)>>

\* The end of undo(): _saveGame() if there was an entry.
SavedAfterUndo(g, S, storage) ==
  IF ~CanUndo(S.undoStack) THEN storage ELSE <<SaveRecord(g, UndoOp(g, S))>>

\* createGame(id): an id the registry does not hold throws, and no game is
\* constructed.
CreateGameById(id, perm) ==
  IF id \notin GameIds THEN [threw |-> TRUE, game |-> <<>>]
  ELSE [threw |-> FALSE, game |-> <<CreateGame(id, perm)>>]

\* startGame(gameId) without a save: newGame() constructs the game, clears
\* the save and writes the new game's record.
NewGameOp(g, perm) ==
  LET S == CreateGame(g, perm)
  IN  [gameId |-> g, game |-> S, storage |-> <<SaveRecord(g, S)>>]

InitAppFallbackToSaved(storage, perm) ==
  LET loaded == LoadSave(storage)
  IN  IF loaded.data = NoSave THEN NewGameOp("klondike", perm)
      ELSE IF CreateGameById(loaded.data[1].gameId, perm).threw
      THEN [gameId |-> loaded.data[1].gameId,
            game |-> CreateGame("klondike", perm),
            storage |-> loaded.storage]
      ELSE [gameId |-> loaded.data[1].gameId,
            game |-> RestoreGame(loaded.data[1], perm),
            storage |-> loaded.storage]

\* init(): start the saved game if _loadSave() yields one and startGame does
\* not throw; else (after _clearSave() if it threw) a new 'klondike' game.
\* perm is the permutation the shuffle of the one successful setup() makes.
InitApp(storage, perm) ==
  LET loaded == LoadSave(storage)
  IN  IF loaded.data = NoSave THEN NewGameOp("klondike", perm)
      ELSE IF CreateGameById(loaded.data[1].gameId, perm).threw
      THEN NewGameOp("klondike", perm)
      ELSE [gameId |-> loaded.data[1].gameId,
            game |-> RestoreGame(loaded.data[1], perm),
            storage |-> loaded.storage]

\* The games explored.  Each is a shuffle (any permutation can come out of
\* shuffle()) and the steps of the earlier session whose save the
\* application restores at start-up; with no steps the game is fresh.
KlondikeFresh_perm ==
  <<40, 10, 13, 43, 5, 41, 20, 9, 36, 33, 32, 35, 28, 16, 19, 7, 46, 2, 45, 30,
    8, 15, 39, 23, 42, 29, 1, 51, 34, 3, 14, 37, 49, 50, 6, 11, 21, 38, 31, 24,
    48, 25, 18, 27, 12, 4, 22, 47, 52, 17, 26, 44>>

KlondikeFresh_script ==
  <<>>

KlondikeFresh == [gameId |-> "klondike", perm |-> KlondikeFresh_perm, script |-> KlondikeFresh_script]

KlondikeDraw3Saved_perm ==
  <<30, 5, 24, 7, 50, 11, 31, 14, 25, 15, 21, 18, 4, 46, 39, 35, 26, 17, 33, 47,
    29, 44, 16, 22, 19, 34, 12, 48, 10, 23, 49, 6, 32, 28, 38, 45, 13, 51, 20, 43,
    42, 27, 9, 37, 41, 40, 36, 1, 3, 8, 2, 52>>

KlondikeDraw3Saved_script ==
  <<StockOp,
    MoveOp(Waste, 2, <<"tableau", 6>>),
    StockOp,
    StockOp,
    StockOp,
    StockOp,
    StockOp,
    StockOp,
    StockOp,
    StockOp,
    StockOp,
    StockOp,
    StockOp,
    StockOp,
    StockOp,
    StockOp,
    StockOp>>

KlondikeDraw3Saved == [gameId |-> "klondike-draw3", perm |-> KlondikeDraw3Saved_perm, script |-> KlondikeDraw3Saved_script]

Spider1Saved_perm ==
  <<50, 95, 89, 36, 67, 13, 97, 8, 9, 10, 11, 12, 80, 3, 4, 5, 6, 7, 94, 28,
    16, 98, 53, 2, 90, 49, 44, 99, 1, 102, 70, 39, 91, 22, 86, 69, 100, 15, 24, 62,
    83, 21, 30, 17, 68, 57, 18, 84, 26, 79, 103, 37, 104, 19, 75, 63, 85, 40, 52, 76,
    41, 34, 78, 20, 35, 71, 42, 29, 82, 55, 23, 88, 81, 77, 27, 59, 72, 61, 87, 31,
    38, 32, 46, 93, 54, 73, 64, 101, 33, 51, 60, 74, 25, 43, 96, 48, 56, 45, 47, 65,
    92, 66, 58, 14>>

Spider1Saved_script ==
  <<MoveOp(<<"tableau", 1>>, 5, <<"tableau", 0>>),
    MoveOp(<<"tableau", 1>>, 4, <<"tableau", 0>>),
    MoveOp(<<"tableau", 1>>, 3, <<"tableau", 0>>),
    MoveOp(<<"tableau", 1>>, 2, <<"tableau", 0>>),
    MoveOp(<<"tableau", 1>>, 1, <<"tableau", 0>>),
    MoveOp(<<"tableau", 2>>, 5, <<"tableau", 0>>),
    MoveOp(<<"tableau", 2>>, 4, <<"tableau", 0>>),
    MoveOp(<<"tableau", 2>>, 3, <<"tableau", 0>>),
    MoveOp(<<"tableau", 2>>, 2, <<"tableau", 0>>),
    MoveOp(<<"tableau", 2>>, 1, <<"tableau", 0>>),
    MoveOp(<<"tableau", 3>>, 5, <<"tableau", 0>>)>>

Spider1Saved == [gameId |-> "spider-1", perm |-> Spider1Saved_perm, script |-> Spider1Saved_script]

Spider2Saved_perm ==
  <<50, 28, 64, 98, 14, 13, 17, 83, 20, 55, 89, 65, 15, 79, 36, 7, 19, 26, 70, 68,
    16, 39, 90, 3, 5, 63, 62, 61, 60, 69, 94, 23, 37, 9, 101, 102, 100, 77, 10, 22,
    4, 44, 84, 11, 87, 27, 35, 99, 12, 43, 80, 45, 103, 58, 48, 25, 41, 1, 104, 54,
    42, 33, 30, 57, 72, 51, 2, 93, 47, 81, 18, 82, 24, 95, 86, 75, 34, 31, 8, 67,
    73, 56, 76, 88, 71, 38, 29, 92, 40, 21, 6, 53, 91, 59, 96, 32, 97, 49, 66, 46,
    78, 85, 52, 74>>

Spider2Saved_script ==
  <<MoveOp(<<"tableau", 4>>, 4, <<"tableau", 5>>),
    MoveOp(<<"tableau", 4>>, 3, <<"tableau", 6>>),
    MoveOp(<<"tableau", 4>>, 2, <<"tableau", 7>>),
    MoveOp(<<"tableau", 4>>, 1, <<"tableau", 8>>)>>

Spider2Saved == [gameId |-> "spider-2", perm |-> Spider2Saved_perm, script |-> Spider2Saved_script]

Spider4Fresh_perm ==
  <<36, 45, 17, 57, 70, 6, 23, 15, 12, 3, 58, 31, 79, 44, 11, 34, 75, 7, 77, 53,
    42, 26, 102, 5, 40, 33, 4, 83, 39, 41, 29, 25, 46, 65, 93, 54, 98, 61, 87, 103,
    76, 49, 89, 63, 38, 19, 72, 64, 81, 104, 21, 9, 86, 27, 62, 85, 92, 35, 69, 55,
    67, 80, 48, 68, 13, 30, 95, 90, 28, 88, 94, 84, 60, 10, 8, 101, 71, 74, 59, 50,
    97, 24, 78, 2, 37, 96, 20, 51, 18, 14, 91, 47, 73, 100, 82, 32, 16, 66, 56, 52,
    43, 22, 1, 99>>

Spider4Fresh_script ==
  <<>>

Spider4Fresh == [gameId |-> "spider-4", perm |-> Spider4Fresh_perm, script |-> Spider4Fresh_script]

FreeCellLate_perm ==
  <<52, 32, 5, 2, 20, 18, 50, 12, 37, 10, 35, 8, 33, 6, 25, 30, 27, 4, 23, 19,
    16, 39, 7, 31, 29, 21, 43, 41, 38, 9, 28, 24, 22, 14, 36, 11, 3, 1, 49, 40,
    34, 17, 48, 47, 45, 42, 26, 13, 15, 51, 46, 44>>

FreeCellLate_script ==
  <<MoveOp(<<"tableau", 5>>, 5, <<"foundation", 0>>),
    MoveOp(<<"tableau", 3>>, 6, <<"foundation", 0>>),
    MoveOp(<<"tableau", 6>>, 5, <<"foundation", 0>>),
    MoveOp(<<"tableau", 3>>, 5, <<"foundation", 0>>),
    MoveOp(<<"tableau", 7>>, 5, <<"foundation", 0>>),
    MoveOp(<<"tableau", 6>>, 4, <<"foundation", 0>>),
    MoveOp(<<"tableau", 7>>, 4, <<"foundation", 0>>),
    MoveOp(<<"tableau", 6>>, 3, <<"foundation", 0>>),
    MoveOp(<<"tableau", 6>>, 2, <<"foundation", 0>>),
    MoveOp(<<"tableau", 5>>, 4, <<"foundation", 0>>),
    MoveOp(<<"tableau", 0>>, 6, <<"foundation", 0>>),
    MoveOp(<<"tableau", 7>>, 3, <<"foundation", 0>>),
    MoveOp(<<"tableau", 4>>, 5, <<"foundation", 1>>),
    MoveOp(<<"tableau", 7>>, 2, <<"foundation", 1>>),
    MoveOp(<<"tableau", 2>>, 6, <<"foundation", 1>>),
    MoveOp(<<"tableau", 6>>, 1, <<"foundation", 1>>),
    MoveOp(<<"tableau", 0>>, 5, <<"foundation", 1>>),
    MoveOp(<<"tableau", 2>>, 5, <<"foundation", 1>>),
    MoveOp(<<"tableau", 0>>, 4, <<"foundation", 1>>),
    MoveOp(<<"tableau", 3>>, 4, <<"foundation", 1>>),
    MoveOp(<<"tableau", 4>>, 4, <<"foundation", 1>>),
    MoveOp(<<"tableau", 2>>, 4, <<"foundation", 1>>),
    MoveOp(<<"tableau", 4>>, 3, <<"foundation", 1>>),
    MoveOp(<<"tableau", 5>>, 3, <<"foundation", 2>>),
    MoveOp(<<"tableau", 0>>, 3, <<"foundation", 2>>),
    MoveOp(<<"tableau", 5>>, 2, <<"foundation", 2>>),
    MoveOp(<<"tableau", 2>>, 3, <<"foundation", 2>>),
    MoveOp(<<"tableau", 0>>, 2, <<"foundation", 2>>),
    MoveOp(<<"tableau", 2>>, 2, <<"foundation", 3>>),
    MoveOp(<<"tableau", 4>>, 2, <<"foundation", 3>>),
    MoveOp(<<"tableau", 3>>, 3, <<"foundation", 3>>),
    MoveOp(<<"tableau", 2>>, 1, <<"foundation", 3>>),
    MoveOp(<<"tableau", 3>>, 2, <<"foundation", 3>>),
    MoveOp(<<"tableau", 0>>, 1, <<"foundation", 3>>),
    MoveOp(<<"tableau", 7>>, 1, <<"freecell", 0>>),
    MoveOp(<<"tableau", 7>>, 0, <<"freecell", 1>>)>>

FreeCellLate == [gameId |-> "freecell", perm |-> FreeCellLate_perm, script |-> FreeCellLate_script]

FreeCellLight_perm ==
  <<52, 31, 5, 20, 48, 47, 43, 12, 37, 10, 35, 8, 33, 6, 25, 38, 39, 26, 27, 23,
    49, 7, 32, 30, 21, 18, 17, 46, 9, 13, 1, 22, 14, 44, 36, 28, 3, 2, 51, 41,
    34, 29, 4, 24, 16, 50, 11, 19, 15, 45, 42, 40>>

FreeCellLight_script ==
  <<MoveOp(<<"tableau", 7>>, 5, <<"foundation", 0>>),
    MoveOp(<<"tableau", 5>>, 5, <<"foundation", 0>>),
    MoveOp(<<"tableau", 7>>, 4, <<"foundation", 0>>),
    MoveOp(<<"tableau", 0>>, 6, <<"foundation", 0>>),
    MoveOp(<<"tableau", 4>>, 5, <<"foundation", 0>>),
    MoveOp(<<"tableau", 7>>, 3, <<"foundation", 0>>),
    MoveOp(<<"tableau", 3>>, 6, <<"foundation", 0>>),
    MoveOp(<<"tableau", 0>>, 5, <<"foundation", 0>>),
    MoveOp(<<"tableau", 0>>, 4, <<"foundation", 0>>),
    MoveOp(<<"tableau", 2>>, 6, <<"foundation", 0>>),
    MoveOp(<<"tableau", 6>>, 5, <<"foundation", 0>>),
    MoveOp(<<"tableau", 5>>, 4, <<"foundation", 0>>),
    MoveOp(<<"tableau", 4>>, 4, <<"foundation", 1>>),
    MoveOp(<<"tableau", 7>>, 2, <<"foundation", 1>>),
    MoveOp(<<"tableau", 6>>, 4, <<"foundation", 1>>),
    MoveOp(<<"tableau", 3>>, 5, <<"foundation", 1>>),
    MoveOp(<<"tableau", 3>>, 4, <<"foundation", 1>>),
    MoveOp(<<"tableau", 7>>, 1, <<"foundation", 1>>),
    MoveOp(<<"tableau", 0>>, 3, <<"foundation", 1>>),
    MoveOp(<<"tableau", 3>>, 3, <<"foundation", 1>>),
    MoveOp(<<"tableau", 4>>, 3, <<"foundation", 1>>),
    MoveOp(<<"tableau", 2>>, 5, <<"foundation", 1>>),
    MoveOp(<<"tableau", 6>>, 3, <<"foundation", 1>>),
    MoveOp(<<"tableau", 4>>, 2, <<"foundation", 2>>),
    MoveOp(<<"tableau", 5>>, 3, <<"foundation", 2>>),
    MoveOp(<<"tableau", 5>>, 2, <<"foundation", 2>>),
    MoveOp(<<"tableau", 6>>, 2, <<"foundation", 2>>),
    MoveOp(<<"tableau", 0>>, 2, <<"foundation", 2>>),
    MoveOp(<<"tableau", 2>>, 4, <<"foundation", 3>>),
    MoveOp(<<"tableau", 5>>, 1, <<"foundation", 3>>),
    MoveOp(<<"tableau", 6>>, 1, <<"foundation", 3>>),
    MoveOp(<<"tableau", 3>>, 2, <<"foundation", 3>>),
    MoveOp(<<"tableau", 0>>, 1, <<"foundation", 3>>),
    MoveOp(<<"tableau", 3>>, 1, <<"foundation", 3>>),
    MoveOp(<<"tableau", 4>>, 1, <<"freecell", 0>>),
    MoveOp(<<"tableau", 2>>, 3, <<"freecell", 1>>),
    MoveOp(<<"tableau", 2>>, 2, <<"freecell", 2>>),
    MoveOp(<<"tableau", 2>>, 1, <<"freecell", 3>>)>>

FreeCellLight == [gameId |-> "freecell", perm |-> FreeCellLight_perm, script |-> FreeCellLight_script]

FreeCellNearWin_perm ==
  <<52, 7, 6, 4, 24, 51, 45, 13, 32, 28, 11, 10, 21, 46, 34, 31, 30, 27, 5, 47,
    43, 2, 23, 19, 49, 48, 44, 40, 39, 38, 37, 36, 12, 25, 35, 33, 29, 9, 8, 41,
    3, 26, 20, 17, 50, 42, 1, 22, 18, 16, 15, 14>>

FreeCellNearWin_script ==
  <<MoveOp(<<"tableau", 3>>, 6, <<"foundation", 0>>),
    MoveOp(<<"tableau", 5>>, 5, <<"foundation", 0>>),
    MoveOp(<<"tableau", 6>>, 5, <<"foundation", 0>>),
    MoveOp(<<"tableau", 2>>, 6, <<"foundation", 0>>),
    MoveOp(<<"tableau", 3>>, 5, <<"foundation", 0>>),
    MoveOp(<<"tableau", 0>>, 6, <<"foundation", 0>>),
    MoveOp(<<"tableau", 1>>, 6, <<"foundation", 0>>),
    MoveOp(<<"tableau", 2>>, 5, <<"foundation", 0>>),
    MoveOp(<<"tableau", 3>>, 4, <<"foundation", 0>>),
    MoveOp(<<"tableau", 3>>, 3, <<"foundation", 0>>),
    MoveOp(<<"tableau", 6>>, 4, <<"foundation", 0>>),
    MoveOp(<<"tableau", 0>>, 5, <<"foundation", 0>>),
    MoveOp(<<"tableau", 7>>, 5, <<"foundation", 1>>),
    MoveOp(<<"tableau", 7>>, 4, <<"foundation", 1>>),
    MoveOp(<<"tableau", 7>>, 3, <<"foundation", 1>>),
    MoveOp(<<"tableau", 6>>, 3, <<"foundation", 1>>),
    MoveOp(<<"tableau", 7>>, 2, <<"foundation", 1>>),
    MoveOp(<<"tableau", 3>>, 2, <<"foundation", 1>>),
    MoveOp(<<"tableau", 6>>, 2, <<"foundation", 1>>),
    MoveOp(<<"tableau", 1>>, 5, <<"foundation", 1>>),
    MoveOp(<<"tableau", 7>>, 1, <<"foundation", 1>>),
    MoveOp(<<"tableau", 3>>, 1, <<"foundation", 1>>),
    MoveOp(<<"tableau", 0>>, 4, <<"foundation", 1>>),
    MoveOp(<<"tableau", 4>>, 5, <<"foundation", 1>>),
    MoveOp(<<"tableau", 6>>, 1, <<"foundation", 1>>),
    MoveOp(<<"tableau", 7>>, 0, <<"foundation", 2>>),
    MoveOp(<<"tableau", 3>>, 0, <<"foundation", 2>>),
    MoveOp(<<"tableau", 6>>, 0, <<"foundation", 2>>),
    MoveOp(<<"tableau", 0>>, 3, <<"foundation", 2>>),
    MoveOp(<<"tableau", 2>>, 4, <<"foundation", 2>>),
    MoveOp(<<"tableau", 0>>, 2, <<"foundation", 2>>),
    MoveOp(<<"tableau", 0>>, 1, <<"foundation", 2>>),
    MoveOp(<<"tableau", 5>>, 4, <<"foundation", 2>>),
    MoveOp(<<"tableau", 5>>, 3, <<"foundation", 2>>),
    MoveOp(<<"tableau", 1>>, 4, <<"foundation", 2>>),
    MoveOp(<<"tableau", 1>>, 3, <<"foundation", 2>>),
    MoveOp(<<"tableau", 4>>, 4, <<"foundation", 2>>),
    MoveOp(<<"tableau", 2>>, 3, <<"foundation", 3>>),
    MoveOp(<<"tableau", 1>>, 2, <<"foundation", 3>>),
    MoveOp(<<"tableau", 5>>, 2, <<"foundation", 3>>),
    MoveOp(<<"tableau", 2>>, 2, <<"foundation", 3>>),
    MoveOp(<<"tableau", 2>>, 1, <<"foundation", 3>>),
    MoveOp(<<"tableau", 1>>, 1, <<"foundation", 3>>),
    MoveOp(<<"tableau", 5>>, 1, <<"foundation", 3>>),
    MoveOp(<<"tableau", 2>>, 0, <<"foundation", 3>>),
    MoveOp(<<"tableau", 5>>, 0, <<"foundation", 3>>),
    MoveOp(<<"tableau", 4>>, 3, <<"foundation", 3>>),
    MoveOp(<<"tableau", 4>>, 2, <<"foundation", 3>>),
    MoveOp(<<"tableau", 4>>, 1, <<"foundation", 3>>),
    MoveOp(<<"tableau", 4>>, 0, <<"foundation", 3>>)>>

FreeCellNearWin == [gameId |-> "freecell", perm |-> FreeCellNearWin_perm, script |-> FreeCellNearWin_script]

Scenarios ==
  {KlondikeFresh, KlondikeDraw3Saved, Spider1Saved, Spider2Saved, Spider4Fresh,
   FreeCellLight}

\* The FreeCell games explored on their own.
FreeCellScenarios == {FreeCellLate, FreeCellLight}

\* The FreeCell game two moves short of being won, explored on its own.
NearWinScenarios == {FreeCellNearWin}

\* The record an earlier session left of a game of the scenarios.
ScenarioRecord(sc) ==
  SaveRecord(sc.gameId,
             Replay(sc.gameId, CreateGame(sc.gameId, sc.perm), sc.script))

\* A record like that of KlondikeDraw3Saved written before the piles had
\* today's ids and before records carried a version: it names no
\* 'tableau-6' and no 'waste', and a pile 'reserve' the game does not have.
LegacyShortRecord ==
  LET rec == ScenarioRecord(KlondikeDraw3Saved)
      reserve == <<"reserve", 0>>
      ids == (DOMAIN rec.piles \ {<<"tableau", 6>>, Waste}) \cup {reserve}
  IN  [rec EXCEPT
         !.version = "",
         !.piles = [p \in ids |->
                      IF p = reserve
                      THEN [type |-> "reserve", cards |-> rec.piles[Waste].cards]
                      ELSE rec.piles[p]]]

\* What localStorage may hold when the application starts, each with the
\* permutation the shuffle of the start-up's setup() makes: nothing; a
\* record of this version; a record of a game the registry does not know;
\* a won game's record; a record of another version; a legacy record whose
\* piles are not the game's.
BootNoSave == [storage |-> NoSave, perm |-> KlondikeFresh_perm]

BootSaved ==
  [storage |-> <<ScenarioRecord(KlondikeDraw3Saved)>>, perm |-> KlondikeFresh_perm]

BootUnknownGame ==
  [storage |-> <<[ScenarioRecord(KlondikeDraw3Saved) EXCEPT !.gameId = "pyramid"]>>,
   perm |-> KlondikeFresh_perm]

BootWonSave ==
  [storage |-> <<[ScenarioRecord(KlondikeDraw3Saved) EXCEPT !.won = TRUE]>>,
   perm |-> KlondikeFresh_perm]

BootOldVersion ==
  [storage |-> <<[ScenarioRecord(KlondikeDraw3Saved) EXCEPT !.version = "v23"]>>,
   perm |-> KlondikeFresh_perm]

BootLegacyShort ==
  [storage |-> <<LegacyShortRecord>>, perm |-> KlondikeFresh_perm]

Boots ==
  {BootNoSave, BootSaved, BootUnknownGame, BootWonSave, BootOldVersion,
   BootLegacyShort}

\* init(): the saved game if there is one, else a new game.
StartGame(sc) ==
  IF Len(sc.script) = 0 THEN CreateGame(sc.gameId, sc.perm)
  ELSE RestoreGame(
         SaveRecord(sc.gameId,
                    Replay(sc.gameId, CreateGame(sc.gameId, sc.perm), sc.script)),
         sc.perm)

\* ------------------------------------------------------- the state machine

VARIABLES
  gameId,     \* currentGameId
  piles,      \* game.state.piles: pile id -> cards, bottom first
  undoStack,  \* game.state.undoStack
  moveCount,  \* game.state.moveCount
  won,        \* game.state.won
  storage,    \* localStorage's 'pasianssi-save' item
  dragState,  \* input.dragState: none, or the drag in progress
  renderRequested,  \* the flag requestRender() sets
  scheduled,  \* how many requestRender callbacks wait for the next frame
  animating,  \* whether the _animLoop callback chain is running
  cardSize,   \* cardRenderer.cardWidth x cardHeight
  imageCache, \* cardRenderer.imageCache: which Map is in use
  caches,     \* the Maps made so far: image key -> size of the image held
  loads,      \* the image loads (_svgToImage promises) still pending
  games,      \* history: how many games createGame has constructed
  stored,     \* history: what localStorage held when init() ran
  hist,       \* history: the pile values and moveCount of the state the game
              \* started in and of the state each action that has not been
              \* undone led to (not program state)
  last        \* history: the operation that led to this state

vars ==
  <<gameId, piles, undoStack, moveCount, won, storage, dragState,
    renderRequested, scheduled, animating, cardSize, imageCache, caches,
    loads, games, stored, hist, last>>

\* What the gestures of the input layer and the frames change.  The actions
\* TryMove, TryAutoMove, StockClick and Undo below each follow a whole
\* gesture through to the frame that redraws the board, where no drag is in
\* progress and no render is pending.
inputVars == <<dragState, renderRequested, scheduled, animating>>

\* The card renderer's images.
cacheVars == <<cardSize, imageCache, caches, loads>>

\* The keys of the images followed (of the 58 that _generateAllCards makes).
ImageKeys == {"back", "hearts-1"}

\* The card sizes a layout can ask for; the constructor's is the first.
InitialSize == "70x100"
Sizes == {InitialSize, "56x80", "84x120"}

\* No image under a key of a Map.
NoImage == "none"

\* new Map()
EmptyCache == [k \in ImageKeys |-> NoImage]

\* The renderer after the constructor and init(): every image generated at
\* the initial size into the Map the constructor made.
CacheReady ==
  /\ cardSize = InitialSize
  /\ imageCache = 1
  /\ caches = <<[k \in ImageKeys |-> InitialSize]>>
  /\ loads = {}

NoDrag == <<>>

Game == GameOf(piles, undoStack, moveCount, won)

\* The card values of every pile, read directly off the state.
PileValues(P) ==
  [p \in DOMAIN P |-> [i \in 1..Len(P[p]) |-> CardValue(P[p][i])]]

Seen(S) == [values |-> PileValues(S.piles), moveCount |-> S.moveCount]

\* The foundation piles that are empty in P and not in Q.
Filled(P, Q) ==
  {f \in DOMAIN P : PileType(f) = "foundation" /\ IsEmpty(P[f]) /\ ~IsEmpty(Q[f])}

Ids(cards) == [i \in 1..Len(cards) |-> cards[i].id]

\* The record of an operation: its name, what it returned, the piles it moved
\* cards between, the cards it moved (by identity, in order) and the
\* foundations that were empty before it and are not after it.
Last(op, ret, from, to, cards, filled) ==
  [op |-> op, ret |-> ret, from |-> from, to |-> to, cards |-> Ids(cards),
   filled |-> filled]

Install(S) ==
  /\ piles' = S.piles
  /\ undoStack' = S.undoStack
  /\ moveCount' = S.moveCount
  /\ won' = S.won

\* The application has started one of the games of scs.
StartedFrom(scs) ==
  \E sc \in scs :
    LET S == StartGame(sc)
    IN  /\ gameId = sc.gameId
        /\ piles = S.piles
        /\ undoStack = S.undoStack
        /\ moveCount = S.moveCount
        /\ won = S.won
        /\ stored = (IF Len(sc.script) = 0 THEN NoSave
                     ELSE <<SaveRecord(sc.gameId, S)>>)
        /\ storage = <<SaveRecord(sc.gameId, S)>>
        /\ dragState = NoDrag
        /\ renderRequested = FALSE
        /\ scheduled = 0
        /\ animating = FALSE
        /\ CacheReady
        /\ games = 1
        /\ hist = <<Seen(S)>>
        /\ last = Last("start", TRUE, NoPile, NoPile, <<>>, {})

\* The application has started with localStorage as one of boots has it.
BootedFrom(boots) ==
  \E b \in boots :
    LET r == InitApp(b.storage, b.perm)
    IN  /\ gameId = r.gameId
        /\ piles = r.game.piles
        /\ undoStack = r.game.undoStack
        /\ moveCount = r.game.moveCount
        /\ won = r.game.won
        /\ stored = b.storage
        /\ storage = r.storage
        /\ dragState = NoDrag
        /\ renderRequested = FALSE
        /\ scheduled = 0
        /\ animating = FALSE
        /\ CacheReady
        /\ games = 1
        /\ hist = <<Seen(r.game)>>
        /\ last = Last("start", TRUE, NoPile, NoPile, <<>>, {})

InitStart == BootedFrom(Boots)

Init == StartedFrom(Scenarios)

InitFreeCell == StartedFrom(FreeCellScenarios)

InitNearWin == StartedFrom(NearWinScenarios)

\* The card indices hitTest can report for a pile: the renderer records a
\* position for every card of a tableau pile, and for the top card only of
\* any other pile.
CanHit(P, pile, cardIndex) ==
  /\ cardIndex \in 0..(Len(P[pile]) - 1)
  /\ PileType(pile) # "tableau" => cardIndex = Len(P[pile]) - 1

\* What the input layer lets a pointer-down pick up: a face-up card of a
\* pile other than the stock, with the cards above it; in waste, foundation
\* and freecell piles only the top card.
CanPickUp(P, from, cardIndex) ==
  /\ PileType(from) # "stock"
  /\ CanHit(P, from, cardIndex)
  /\ P[from][cardIndex + 1].faceUp
  /\ PileType(from) \in {"waste", "foundation", "freecell"}
       => cardIndex = Len(P[from]) - 1

\* What findDropTarget can return: any pile but stock and waste.
CanDropOn(to) == PileType(to) \notin {"stock", "waste"}

\* What a pointer-down can pick up in a state: <<from, cardIndex>>.
Pickups(P) ==
  UNION {{<<from, cardIndex>> :
            cardIndex \in {i \in 0..(Len(P[from]) - 1) : CanPickUp(P, from, i)}} :
         from \in {p \in DOMAIN P : PileType(p) # "stock"}}

\* Where a drag from pile `from` can be released so that tryMove is called:
\* on a pile findDropTarget returns, other than the pile of origin.
DropTargets(P, from) == {t \in DOMAIN P : CanDropOn(t) /\ t # from}

\* The drags the input layer can deliver in a state: <<from, cardIndex, to>>.
DragInputs(P) ==
  UNION {{<<pk[1], pk[2], to>> : to \in DropTargets(P, pk[1])} : pk \in Pickups(P)}

\* ds.cards = pile.cards.slice(hit.cardIndex)
DragCards(P, a) == Slice(P[a[1]], a[2])

\* The taps that reach tryAutoMove: <<pile, cardIndex>>.  A double tap is
\* passed on for any face-up card that was hit; a click without drag is a
\* special case of it (a face-up card that is the only card picked up).
CanTap(P, pile, cardIndex) ==
  /\ CanHit(P, pile, cardIndex)
  /\ P[pile][cardIndex + 1].faceUp

TapInputs(P) ==
  UNION {{<<pile, cardIndex>> :
            cardIndex \in {i \in 0..(Len(P[pile]) - 1) : CanTap(P, pile, i)}} :
         pile \in DOMAIN P}

\* The drags of a state that tryMove accepts.
AcceptedDrags(g, P) ==
  UNION {LET cards == Slice(P[pk[1]], pk[2])
         IN  {<<pk[1], pk[2], to>> :
                to \in {t \in DropTargets(P, pk[1]) :
                          CanMove(g, P, cards, pk[1], t)}} :
         pk \in Pickups(P)}

\* One of the drags of a state that tryMove rejects, when there is one.
RejectedDrag(g, P) ==
  LET Rejects(from, i, t) == ~CanMove(g, P, Slice(P[from], i), from, t)
      Rejected(from, i) ==
        CanPickUp(P, from, i) /\ \E t \in DropTargets(P, from) : Rejects(from, i, t)
      Indices(from) == 0..(Len(P[from]) - 1)
      HasRejected(from) == \E i \in Indices(from) : Rejected(from, i)
  IN  IF \E from \in DOMAIN P : HasRejected(from)
      THEN LET from == CHOOSE p \in DOMAIN P : HasRejected(p)
               i == CHOOSE j \in Indices(from) : Rejected(from, j)
               to == CHOOSE t \in DropTargets(P, from) : Rejects(from, i, t)
           IN  {<<from, i, to>>}
      ELSE {}

\* The drags explored from a state: every drag tryMove accepts and one of
\* those it rejects.
MoveInputs(g, S) == AcceptedDrags(g, S.piles) \cup RejectedDrag(g, S.piles)

\* The taps of a state that move a card.
MovingTaps(g, S) ==
  {a \in TapInputs(S.piles) : TryAutoMoveOp(g, S, a[1], a[2]).ret}

\* One of the taps of a state that move nothing, when there is one.
IdleTap(g, S) ==
  LET Idle(pile, i) ==
        CanTap(S.piles, pile, i) /\ ~TryAutoMoveOp(g, S, pile, i).ret
      Indices(pile) == 0..(Len(S.piles[pile]) - 1)
      HasIdle(pile) == \E i \in Indices(pile) : Idle(pile, i)
  IN  IF \E pile \in DOMAIN S.piles : HasIdle(pile)
      THEN LET pile == CHOOSE p \in DOMAIN S.piles : HasIdle(p)
               i == CHOOSE j \in Indices(pile) : Idle(pile, j)
           IN  {<<pile, i>>}
      ELSE {}

\* The taps explored from a state: every tap that moves a card and one of
\* those that move nothing.
AutoMoveInputs(g, S) == MovingTaps(g, S) \cup IdleTap(g, S)

\* ------------------------------------------------ the input layer, in steps

\* requestRender(): nothing if a render is requested already; else the flag
\* is set and one more callback waits for the next animation frame.
RequestRender(R) ==
  IF R.renderRequested THEN R
  ELSE [renderRequested |-> TRUE, scheduled |-> R.scheduled + 1]

Renders == [renderRequested |-> renderRequested, scheduled |-> scheduled]

InstallRenders(R) ==
  /\ renderRequested' = R.renderRequested
  /\ scheduled' = R.scheduled

\* A Card object that _restoreSnapshot has replaced in its pile: the drag
\* may still hold it, no pile does.  (Objects that are in no pile of the
\* game have negative names; those that are have positive ones.)
Dropped(card) ==
  IF card.id > 0 THEN [card EXCEPT !.id = 0 - 2 * card.id] ELSE card

\* A Card object of a game that newGame() has replaced.
Orphaned(card) ==
  IF card.id > 0 THEN [card EXCEPT !.id = 0 - (2 * card.id + 1)] ELSE card

\* _onPointerDown: this.dragState = { cards, fromPile, fromCardIndex, ...,
\* moved: false }.  fromPile is a Pile object: the pile of that id of the
\* current game, until newGame() replaces the game (then detached, and
\* pileCards are the cards the object holds).
StartDrag(P, pile, cardIndex) ==
  <<[cards |-> Slice(P[pile], cardIndex), fromPile |-> pile,
     fromCardIndex |-> cardIndex, moved |-> FALSE, detached |-> FALSE,
     pileCards |-> <<>>]>>

\* The drag after _restoreSnapshot has given every pile new Card objects.
DragAfterRestore(drag) ==
  IF drag = NoDrag \/ drag[1].detached THEN drag
  ELSE <<[drag[1] EXCEPT
            !.cards = [i \in 1..Len(@) |-> Dropped(@[i])]]>>

\* The drag after newGame() has put a new game in place of the one whose
\* pile it refers to.
DragAfterNewGame(drag, P) ==
  IF drag = NoDrag \/ drag[1].detached THEN drag
  ELSE LET cs == P[drag[1].fromPile]
       IN  <<[drag[1] EXCEPT
                !.cards = [i \in 1..Len(@) |-> Orphaned(@[i])],
                !.detached = TRUE,
                !.pileCards = [i \in 1..Len(cs) |-> Orphaned(cs[i])]]>>

\* The game with the detached pile object of a drag put beside its piles
\* (under the name NoPile), and the result of an operation on that without it.
WithOrphan(S, pileCards) ==
  [S EXCEPT !.piles = (NoPile :> pileCards) @@ S.piles]

WithoutOrphan(S, r) ==
  IF ~r.ret THEN [r EXCEPT !.game = S]
  ELSE [r EXCEPT
          !.game = GameOf([p \in DOMAIN S.piles |-> r.game.piles[p]],
                          PushUndo(S.undoStack, S.piles, S.moveCount),
                          r.game.moveCount, r.game.won)]

\* The game a drag's fromPile object can be operated on in, and the name
\* the object has there.
GameWith(S, ds) == IF ds.detached THEN WithOrphan(S, ds.pileCards) ELSE S

FromPileOf(ds) == IF ds.detached THEN NoPile ELSE ds.fromPile

\* The result r of an operation on GameWith(S, ds), as a result on S.
ResultIn(S, ds, r) == IF ds.detached THEN WithoutOrphan(S, r) ELSE r

\* this.gc.tryMove(ds.cards, ds.fromPile, targetPile)
TryMoveFrom(g, S, ds, to) ==
  ResultIn(S, ds,
           TryMoveOp(g, GameWith(S, ds), ds.cards, FromPileOf(ds), to))

\* this.gc.tryAutoMove(ds.fromPile, ds.fromCardIndex)
TryAutoMoveFrom(g, S, ds) ==
  ResultIn(S, ds,
           TryAutoMoveOp(g, GameWith(S, ds), FromPileOf(ds), ds.fromCardIndex))

\* _onPointerUp(x, y) with a drag in progress, target being what
\* findDropTarget returns (NoPile: nothing): what was called, and its result.
PointerUpOp(g, S, ds, target) ==
  IF ~ds.moved
  THEN IF Len(ds.cards) = 1
       THEN [called |-> "tryAutoMove"] @@ TryAutoMoveFrom(g, S, ds)
       ELSE [called |-> "none", game |-> S, ret |-> FALSE, moved |-> <<>>,
             to |-> NoPile]
  ELSE IF target # NoPile /\ (ds.detached \/ target # ds.fromPile)
       THEN [called |-> "tryMove", to |-> target] @@ TryMoveFrom(g, S, ds, target)
       ELSE [called |-> "none", game |-> S, ret |-> FALSE, moved |-> <<>>,
             to |-> NoPile]

\* A drag released over another pile: tryMove(cards, fromPile, targetPile).
TryMove ==
  /\ Len(undoStack) < MaxUndo
  /\ \E a \in MoveInputs(gameId, Game) :
       \E r \in {TryMoveOp(gameId, Game, DragCards(piles, a), a[1], a[3])} :
           /\ Install(r.game)
           /\ hist' = IF r.ret THEN Append(hist, Seen(r.game)) ELSE hist
           /\ last' = IF r.ret
                      THEN Last("tryMove", TRUE, a[1], a[3], r.moved,
                                Filled(piles, r.game.piles))
                      ELSE Last("tryMove", FALSE, NoPile, NoPile, <<>>, {})
           /\ storage' = SavedAfterMove(gameId, r, storage)
           /\ UNCHANGED <<cacheVars, gameId, inputVars, games, stored>>

\* A tap or double tap on a card: tryAutoMove(pile, cardIndex).
TryAutoMove ==
  /\ Len(undoStack) < MaxUndo
  /\ \E a \in AutoMoveInputs(gameId, Game) :
       \E r \in {TryAutoMoveOp(gameId, Game, a[1], a[2])} :
           /\ Install(r.game)
           /\ hist' = IF r.ret THEN Append(hist, Seen(r.game)) ELSE hist
           /\ last' = IF r.ret
                      THEN Last("tryAutoMove", TRUE, a[1], r.to, r.moved,
                                Filled(piles, r.game.piles))
                      ELSE Last("tryAutoMove", FALSE, NoPile, NoPile, <<>>, {})
           /\ storage' = SavedAfterMove(gameId, r, storage)
           /\ UNCHANGED <<cacheVars, gameId, inputVars, games, stored>>

\* A pointer-down on the stock pile: onStockClick().
StockClick ==
  /\ Stock \in DOMAIN piles
  /\ Len(undoStack) < MaxUndo
  /\ LET S == StockClickOp(gameId, Game)
     IN  /\ Install(S)
         /\ hist' = Append(hist, Seen(S))
         /\ last' = Last("onStockClick", TRUE, Stock, NoPile, <<>>,
                         Filled(piles, S.piles))
         /\ storage' = <<SaveRecord(gameId, S)>>
  /\ UNCHANGED <<cacheVars, gameId, inputVars, games, stored>>

\* The undo button: undo().
Undo ==
  /\ Install(UndoOp(gameId, Game))
  /\ hist' = IF Len(hist) > 1 THEN SubSeq(hist, 1, Len(hist) - 1) ELSE hist
  /\ last' = Last("undo", CanUndo(undoStack), NoPile, NoPile, <<>>, {})
  /\ storage' = SavedAfterUndo(gameId, Game, storage)
  /\ UNCHANGED <<cacheVars, gameId, inputVars, games, stored>>

Next == TryMove \/ TryAutoMove \/ StockClick \/ Undo

Spec == Init /\ [][Next]_vars

\* FreeCell has no stock pile, so no pointer-down reaches onStockClick.
NextFreeCell == TryMove \/ TryAutoMove \/ Undo

SpecFreeCell == InitFreeCell /\ [][NextFreeCell]_vars

SpecNearWin == InitNearWin /\ [][NextFreeCell]_vars

SpecStart == InitStart /\ [][Next]_vars

\* Every game explored: the games of Scenarios and the FreeCell game that is
\* about to be won.
AllScenarios == Scenarios \cup NearWinScenarios

InitAll == StartedFrom(AllScenarios)

SpecAll == InitAll /\ [][Next]_vars

\* ------------------------------------------- the input layer's event handlers

\* A move the input layer has asked for: what `last` records of it.
LastOf(r, ds) ==
  IF r.called = "none" THEN Last("pointerUp", FALSE, NoPile, NoPile, <<>>, {})
  ELSE IF ~r.ret THEN Last(r.called, FALSE, NoPile, NoPile, <<>>, {})
  ELSE Last(r.called, TRUE, IF ds.detached THEN NoPile ELSE ds.fromPile,
            r.to, r.moved, Filled(piles, r.game.piles))

\* The shuffle the new-game button is followed through.
NewGamePerms == {KlondikeDraw3Saved_perm}

\* The cards a drag is started on: every card that some pile accepts, and
\* one of those that none accepts.
DragStarts(g, P) ==
  LET Accepted(pk) ==
        \E t \in DropTargets(P, pk[1]) :
          CanMove(g, P, Slice(P[pk[1]], pk[2]), pk[1], t)
      accepted == {pk \in Pickups(P) : Accepted(pk)}
      others == Pickups(P) \ accepted
  IN  accepted \cup (IF others = {} THEN {} ELSE {CHOOSE pk \in others : TRUE})

\* _onPointerDown on a face-up card outside the stock: a drag starts (over
\* whatever dragState held), and requestRender().
DragStart ==
  /\ \E pk \in DragStarts(gameId, piles) :
       dragState' = StartDrag(piles, pk[1], pk[2])
  /\ InstallRenders(RequestRender(Renders))
  /\ UNCHANGED <<cacheVars, gameId, piles, undoStack, moveCount, won, storage,
                 animating, games, stored, hist, last>>

\* _onPointerDown on the stock pile: onStockClick() and requestRender();
\* dragState is left as it is.
StockPointerDown ==
  /\ Stock \in DOMAIN piles
  /\ Len(undoStack) < MaxInputUndo
  /\ LET S == StockClickOp(gameId, Game)
     IN  /\ Install(S)
         /\ hist' = Append(hist, Seen(S))
         /\ last' = Last("onStockClick", TRUE, Stock, NoPile, <<>>,
                         Filled(piles, S.piles))
         /\ storage' = <<SaveRecord(gameId, S)>>
  /\ InstallRenders(RequestRender(Renders))
  /\ UNCHANGED <<cacheVars, gameId, dragState, animating, games, stored>>

\* _onPointerDown within the double-tap window: _onDoubleTap, which calls
\* tryAutoMove(hit.pile, hit.cardIndex); dragState is left as it is.  A move
\* made while no drag is held is animated: _animLoop() starts.
DoubleTap ==
  \E a \in TapInputs(piles) :
    \E r \in {TryAutoMoveOp(gameId, Game, a[1], a[2])} :
        /\ Len(r.game.undoStack) <= MaxInputUndo
        /\ Install(r.game)
        /\ hist' = IF r.ret THEN Append(hist, Seen(r.game)) ELSE hist
        /\ last' = IF r.ret
                   THEN Last("tryAutoMove", TRUE, a[1], r.to, r.moved,
                             Filled(piles, r.game.piles))
                   ELSE Last("tryAutoMove", FALSE, NoPile, NoPile, <<>>, {})
        /\ storage' = SavedAfterMove(gameId, r, storage)
        /\ animating' = (animating \/ (r.ret /\ dragState = NoDrag))
        /\ InstallRenders(IF r.ret THEN RequestRender(Renders) ELSE Renders)
        /\ UNCHANGED <<cacheVars, gameId, dragState, games, stored>>

\* _onPointerMove with a drag held: moved = true and requestRender().
PointerMove ==
  /\ dragState # NoDrag
  /\ dragState' = <<[dragState[1] EXCEPT !.moved = TRUE]>>
  /\ InstallRenders(RequestRender(Renders))
  /\ UNCHANGED <<cacheVars, gameId, piles, undoStack, moveCount, won, storage,
                 animating, games, stored, hist, last>>

\* _onPointerUp on the canvas with a drag held (a mouse button released
\* outside the canvas reaches no handler and is no step): an unmoved single
\* card is a tap, a moved drag over another pile a tryMove; dragState = null
\* and requestRender().  A drag is held here, so no animation starts.
PointerUp ==
  /\ dragState # NoDrag
  /\ \E target \in {t \in DOMAIN piles : CanDropOn(t)} \cup {NoPile} :
       \E r \in {PointerUpOp(gameId, Game, dragState[1], target)} :
           /\ Len(r.game.undoStack) <= MaxInputUndo
           /\ Install(r.game)
           /\ hist' = IF r.ret THEN Append(hist, Seen(r.game)) ELSE hist
           /\ last' = LastOf(r, dragState[1])
           /\ storage' = SavedAfterMove(gameId, r, storage)
  /\ dragState' = NoDrag
  /\ InstallRenders(RequestRender(Renders))
  /\ UNCHANGED <<cacheVars, gameId, animating, games, stored>>

\* The undo button (HUD): undo(), which gives every pile of the popped
\* snapshot new Card objects, and requestRender().
UndoClick ==
  /\ Install(UndoOp(gameId, Game))
  /\ hist' = IF Len(hist) > 1 THEN SubSeq(hist, 1, Len(hist) - 1) ELSE hist
  /\ last' = Last("undo", CanUndo(undoStack), NoPile, NoPile, <<>>, {})
  /\ storage' = SavedAfterUndo(gameId, Game, storage)
  /\ dragState' = IF CanUndo(undoStack) THEN DragAfterRestore(dragState)
                  ELSE dragState
  /\ InstallRenders(IF CanUndo(undoStack) THEN RequestRender(Renders)
                    ELSE Renders)
  /\ UNCHANGED <<cacheVars, gameId, animating, games, stored>>

\* The new-game button (HUD): newGame(), which is startGame(gameId): the save
\* is cleared, a new game is created and saved, and requestRender().
NewGameClick ==
  /\ games < MaxGames
  /\ \E perm \in NewGamePerms :
       \E n \in {NewGameOp(gameId, perm)} :
           /\ Install(n.game)
           /\ storage' = n.storage
           /\ hist' = <<Seen(n.game)>>
  /\ last' = Last("start", TRUE, NoPile, NoPile, <<>>, {})
  /\ dragState' = DragAfterNewGame(dragState, piles)
  /\ games' = games + 1
  /\ InstallRenders(RequestRender(Renders))
  /\ UNCHANGED <<cacheVars, gameId, animating, stored>>

\* _onResize() with changed dimensions: the layout is recalculated,
\* renderRequested is set to false and the board is drawn at once; a callback
\* that requestRender scheduled earlier stays scheduled.
Resize ==
  /\ scheduled < MaxScheduled
  /\ renderRequested' = FALSE
  /\ UNCHANGED <<cacheVars, gameId, piles, undoStack, moveCount, won, storage,
                 dragState,
                 scheduled, animating, games, stored, hist, last>>

\* An animation frame: the callbacks requestRender scheduled run (each sets
\* renderRequested to false and draws), then the _animLoop callback, if the
\* loop is running: requestRender(), and the loop goes on while an animation
\* is running.
Frame ==
  /\ scheduled > 0 \/ animating
  /\ LET drawn == [renderRequested |-> IF scheduled > 0 THEN FALSE
                                       ELSE renderRequested,
                   scheduled |-> 0]
     IN  IF animating
         THEN /\ InstallRenders(RequestRender(drawn))
              /\ animating' \in BOOLEAN
         ELSE /\ InstallRenders(drawn)
              /\ animating' = FALSE
  /\ UNCHANGED <<cacheVars, gameId, piles, undoStack, moveCount, won, storage,
                 dragState,
                 games, stored, hist, last>>

NextInput ==
  \/ DragStart
  \/ StockPointerDown
  \/ DoubleTap
  \/ PointerMove
  \/ PointerUp
  \/ UndoClick
  \/ NewGameClick
  \/ Resize
  \/ Frame

InitInput == StartedFrom({KlondikeFresh})

SpecInput == InitInput /\ [][NextInput]_vars

\* ------------------------------------------------- the card renderer's images

\* How many setSize calls with a new size are followed.
MaxSetSize == 2

\* _svgToImage retries a failed load while attempt < 2.
MaxAttempts == 2

\* The loads of a Map that are still pending, but for one.
OtherLoads(l) == {m \in loads : m.map = l.map /\ m # l}

\* A load has resolved its promise: if it was the last of its
\* _generateAllCards, Promise.all resolves and setSize's then-callback puts
\* the Map in use.
Resolved(l) ==
  /\ loads' = loads \ {l}
  /\ imageCache' = IF OtherLoads(l) = {} THEN l.map ELSE imageCache

\* setSize(width, height) with a size other than the current one (with the
\* current one it returns a resolved promise and changes nothing): the size
\* is set, a new Map is made and the load of every image at that size starts.
SetSize ==
  /\ Len(caches) <= MaxSetSize
  /\ \E size \in Sizes \ {cardSize} :
       /\ cardSize' = size
       /\ caches' = Append(caches, EmptyCache)
       /\ loads' = loads \cup
            {[map |-> Len(caches) + 1, key |-> k, size |-> size, attempt |-> 0] :
               k \in ImageKeys}
  /\ UNCHANGED <<imageCache, gameId, piles, undoStack, moveCount, won, storage,
                 inputVars, games, stored, hist, last>>

\* img.onload of a pending load: targetCache.set(key, img); resolve().
ImageLoaded ==
  /\ \E l \in loads :
       /\ caches' = [caches EXCEPT ![l.map][l.key] = l.size]
       /\ Resolved(l)
  /\ UNCHANGED <<cardSize, gameId, piles, undoStack, moveCount, won, storage,
                 inputVars, games, stored, hist, last>>

\* img.onerror of a pending load: another attempt after the timeout, or,
\* after the last attempt, resolve() without an image.
ImageFailed ==
  /\ \E l \in loads :
       IF l.attempt < MaxAttempts
       THEN /\ loads' = (loads \ {l}) \cup {[l EXCEPT !.attempt = @ + 1]}
            /\ imageCache' = imageCache
       ELSE Resolved(l)
  /\ UNCHANGED <<cardSize, caches, gameId, piles, undoStack, moveCount, won,
                 storage, inputVars, games, stored, hist, last>>

NextCache == SetSize \/ ImageLoaded \/ ImageFailed

InitCache == StartedFrom({KlondikeFresh})

SpecCache == InitCache /\ [][NextCache]_vars

\* ------------------------------------------------------------- the claims

\* Every card of the game, pile after pile in registration order.
RECURSIVE CardsOf(_, _, _)
CardsOf(P, order, i) ==
  IF i > Len(order) THEN <<>> ELSE P[order[i]] \o CardsOf(P, order, i + 1)

AllCards == CardsOf(piles, PileOrder(gameId), 1)

\* How many cards of a sequence have the value v = <<suit, rank>>.
CountOf(cards, v) ==
  Cardinality({i \in 1..Len(cards) : cards[i].suit = v[1] /\ cards[i].rank = v[2]})

\* C1: in every variant, in every state reached from setup() by tryMove,
\* tryAutoMove, onStockClick and undo, the piles together hold as many cards
\* as the deck (52 in Klondike and FreeCell, 104 in Spider), every (suit,
\* rank) value as often as the deck holds it, and no card object twice.
CardConservation ==
  LET deck == CreateDeck(gameId)
      cards == AllCards
  IN  /\ Len(cards) = IF GameKind(gameId) = "spider" THEN 104 ELSE 52
      /\ Len(cards) = Len(deck)
      /\ \A v \in {<<deck[k].suit, deck[k].rank>> : k \in 1..Len(deck)} :
           CountOf(cards, v) = CountOf(deck, v)
      /\ Cardinality({cards[i].id : i \in 1..Len(cards)}) = Len(cards)

\* tryMove has moved two or more cards from one pile to another.
CardConservationWitness ==
  last.op = "tryMove" /\ last.ret /\ Len(last.cards) >= 2

\* The last operation was a tryMove that returned true (called by a drag, or
\* by tryAutoMove for the target it picked).
MoveDone == last.op \in {"tryMove", "tryAutoMove"} /\ last.ret

\* The ids of the cards of a pile that are among ids, in pile order.
Among(cs, ids) ==
  SelectSeq(Ids(cs), LAMBDA x : \E k \in 1..Len(ids) : ids[k] = x)

\* C2 as stated: right after a tryMove that returned true, every moved card
\* is in toPile, none is in fromPile, and in toPile the moved cards stand in
\* the order they had in fromPile.
MoveExclusive ==
  MoveDone =>
    /\ Among(piles[last.to], last.cards) = last.cards
    /\ Among(piles[last.from], last.cards) = <<>>

\* C2 amended: as stated, except that in Spider, when the move completes a
\* King-to-Ace run on toPile, the moved cards are with that run in the
\* foundation that received it, still in the order they had in fromPile.
MoveExclusiveOrCollected ==
  MoveDone =>
    /\ Len(last.cards) > 0
    /\ Among(piles[last.from], last.cards) = <<>>
    /\ IF GameKind(gameId) = "spider" /\ last.filled # {}
       THEN /\ Among(piles[last.to], last.cards) = <<>>
            /\ \E f \in last.filled :
                 /\ Len(piles[f]) = 13
                 /\ Among(piles[f], last.cards) = last.cards
                 /\ TopCard(piles[f]).id = last.cards[Len(last.cards)]
       ELSE /\ Among(piles[last.to], last.cards) = last.cards
            /\ TopCard(piles[last.to]).id = last.cards[Len(last.cards)]

\* A Spider move has completed a run, which took the moved cards with it.
MoveCollectedWitness ==
  MoveDone /\ GameKind(gameId) = "spider" /\ last.filled # {}

\* C3: after an undo that found an entry, the piles hold the card values
\* (pile by pile, in order, with the faceUp flags) and moveCount has the
\* value they had before the action undone, flips and collected runs
\* included; so after n actions and n undos they are those before the first.
UndoRestores ==
  /\ Len(hist) = Len(undoStack) + 1
  /\ (last.op = "undo" /\ last.ret) =>
       /\ PileValues(piles) = hist[Len(hist)].values
       /\ moveCount = hist[Len(hist)].moveCount

\* The later of two actions has been undone.
UndoRestoresWitness ==
  last.op = "undo" /\ last.ret /\ Len(undoStack) > 0

\* C4: whenever canMove is false for a drag, tryMove returns false and leaves
\* every pile (card order and faceUp flags), moveCount, the undo stack and
\* the won flag as they were.
RejectedMoveChangesNothing ==
  \A a \in DragInputs(piles) :
     LET cards == DragCards(piles, a)
     IN  ~CanMove(gameId, piles, cards, a[1], a[3]) =>
           LET r == TryMoveOp(gameId, Game, cards, a[1], a[3])
           IN  /\ ~r.ret
               /\ r.game.piles = piles
               /\ r.game.moveCount = moveCount
               /\ r.game.undoStack = undoStack
               /\ r.game.won = won

\* tryMove has been called with a drag that canMove rejects.
RejectedMoveWitness ==
  /\ last.op = "tryMove" /\ ~last.ret
  /\ \E a \in DragInputs(piles) :
       ~CanMove(gameId, piles, DragCards(piles, a), a[1], a[3])

\* The last 13 cards of a pile are face-up, of one suit, and run from King
\* down to Ace.
KingToAceOnTop(cs) ==
  /\ Len(cs) >= 13
  /\ \A i \in 1..13 :
        LET card == cs[Len(cs) - 13 + i]
        IN  /\ card.faceUp
            /\ card.suit = cs[Len(cs)].suit
            /\ card.rank = 14 - i

\* C6: in every Spider state (after a move, a stock deal or an undo) no
\* tableau pile has a complete King-to-Ace run on top; every foundation an
\* operation filled was empty before and holds exactly the 13 cards of one
\* such run, in order; and while a King lies outside the foundations (as
\* one must for a run to be completed) some foundation is empty.
SpiderAutoCollect ==
  GameKind(gameId) = "spider" =>
    /\ \A p \in DOMAIN piles :
         PileType(p) = "tableau" => ~KingToAceOnTop(piles[p])
    /\ \A f \in last.filled :
         Len(piles[f]) = 13 /\ KingToAceOnTop(piles[f])
    /\ (\E p \in DOMAIN piles :
          /\ PileType(p) # "foundation"
          /\ \E i \in 1..Len(piles[p]) : piles[p][i].rank = 13)
         => \E f \in DOMAIN piles : PileType(f) = "foundation" /\ IsEmpty(piles[f])

\* A stock deal has completed a run, and the run has been collected.
SpiderAutoCollectWitness ==
  GameKind(gameId) = "spider" /\ last.op = "onStockClick" /\ last.filled # {}

\* How many piles of a type, other than pile `except`, are empty.
EmptyPiles(type, except) ==
  Cardinality({p \in DOMAIN piles :
                 PileType(p) = type /\ p # except /\ IsEmpty(piles[p])})

\* (1 + empty freecells) * 2^(empty tableau piles other than the target)
SupermoveCap(to) ==
  (1 + EmptyPiles("freecell", NoPile)) * 2^EmptyPiles("tableau", to)

\* The cards alternate in colour and descend by one, and their first card
\* fits the top card of the non-empty pile `to` in the same way.
FitsAsRun(cards, to) ==
  /\ \A i \in 2..Len(cards) :
        /\ Color(cards[i]) # Color(cards[i - 1])
        /\ cards[i].rank = cards[i - 1].rank - 1
  /\ ~IsEmpty(piles[to])
  /\ Color(cards[1]) # Color(TopCard(piles[to]))
  /\ cards[1].rank = TopCard(piles[to]).rank - 1

CanMoveArgs ==
  UNION {{<<src, i, from>> : i \in 0..Len(piles[src]), from \in {src, NoPile}} :
         src \in DOMAIN piles}

ArgCards(x) == Slice(piles[x[1]], x[2])

PilesOfType(type) == {p \in DOMAIN piles : PileType(p) = type}

\* C8: in Klondike and FreeCell canMove(cards, from, foundation) is true
\* exactly when cards is a single card and either the foundation is empty
\* and the card is an Ace, or the foundation is not empty and the card has
\* the suit of its top card and the next rank.
FoundationLegality ==
  GameKind(gameId) \in {"klondike", "freecell"} =>
    \A x \in CanMoveArgs : \A to \in PilesOfType("foundation") :
       LET cards == ArgCards(x)
       IN  CanMove(gameId, piles, cards, x[3], to)
             <=> /\ Len(cards) = 1
                 /\ \/ IsEmpty(piles[to]) /\ cards[1].rank = 1
                    \/ /\ ~IsEmpty(piles[to])
                       /\ cards[1].suit = piles[to][Len(piles[to])].suit
                       /\ cards[1].rank = piles[to][Len(piles[to])].rank + 1

\* tryMove has put a card on a foundation that was not empty, while another
\* card of the next rank but of another suit lies on top of a pile.
FoundationLegalityWitness ==
  /\ MoveDone /\ PileType(last.to) = "foundation" /\ Len(piles[last.to]) > 1
  /\ \E p \in DOMAIN piles : \E f \in PilesOfType("foundation") :
       /\ ~IsEmpty(piles[p]) /\ ~IsEmpty(piles[f])
       /\ TopCard(piles[p]).rank = TopCard(piles[f]).rank + 1
       /\ TopCard(piles[p]).suit # TopCard(piles[f]).suit

\* The colour of a suit: hearts and diamonds are red, clubs and spades black.
IsRed(card) == card.suit \in {"hearts", "diamonds"}

\* C9: in Klondike, for non-empty cards and a tableau pile other than
\* fromPile, canMove is true exactly when the pile is empty and cards[0] is a
\* King, or the pile is not empty and cards[0] differs in colour from its top
\* card and is one rank below it; a move to the stock or the waste is
\* always rejected.
KlondikeTableauLegality ==
  GameKind(gameId) = "klondike" =>
    \A x \in CanMoveArgs :
       LET cards == ArgCards(x)
       IN  /\ \A to \in PilesOfType("tableau") :
                (Len(cards) > 0 /\ x[3] # to) =>
                  (CanMove(gameId, piles, cards, x[3], to)
                     <=> \/ IsEmpty(piles[to]) /\ cards[1].rank = 13
                         \/ /\ ~IsEmpty(piles[to])
                            /\ IsRed(cards[1]) # IsRed(piles[to][Len(piles[to])])
                            /\ cards[1].rank = piles[to][Len(piles[to])].rank - 1)
           /\ \A to \in PilesOfType("stock") \cup PilesOfType("waste") :
                ~CanMove(gameId, piles, cards, x[3], to)

\* tryMove has put cards on a tableau pile that was not empty, some tableau
\* pile is empty, and a card that is not a King can be picked up.
KlondikeTableauWitness ==
  /\ GameKind(gameId) = "klondike"
  /\ MoveDone /\ PileType(last.to) = "tableau"
  /\ Len(piles[last.to]) > Len(last.cards)
  /\ \E e \in PilesOfType("tableau") : IsEmpty(piles[e])
  /\ \E pk \in Pickups(piles) : piles[pk[1]][pk[2] + 1].rank # 13

\* C10: in Spider canMove(cards, from, to) is true exactly when cards is not
\* empty, from is not to, to is a tableau pile, each card of cards has the
\* suit of the one before it and is one rank below it, and to is empty or
\* cards[0] is one rank below its top card, whatever that card's suit.
SpiderLegality ==
  GameKind(gameId) = "spider" =>
    \A x \in CanMoveArgs : \A to \in DOMAIN piles :
       LET cards == ArgCards(x)
       IN  CanMove(gameId, piles, cards, x[3], to)
             <=> /\ Len(cards) > 0
                 /\ x[3] # to
                 /\ PileType(to) = "tableau"
                 /\ \A i \in 2..Len(cards) :
                       /\ cards[i].suit = cards[i - 1].suit
                       /\ cards[i].rank = cards[i - 1].rank - 1
                 /\ \/ IsEmpty(piles[to])
                    \/ cards[1].rank = piles[to][Len(piles[to])].rank - 1

\* tryMove has put a card on a card of another suit, and the two together
\* descend by one without being of one suit.
SpiderLegalityWitness ==
  /\ GameKind(gameId) = "spider"
  /\ MoveDone /\ PileType(last.to) = "tableau"
  /\ Len(piles[last.to]) > Len(last.cards)
  /\ LET cs == piles[last.to]
         k == Len(cs) - Len(last.cards)
     IN  cs[k].suit # cs[k + 1].suit /\ cs[k + 1].rank = cs[k].rank - 1

\* C11: in FreeCell, for cards picked up from a pile (one or more, from a
\* card to the top) whose number is within the supermove capacity of a
\* tableau pile, canMove onto that pile is true exactly when each card of
\* cards differs in colour from the one before it and is one rank below it,
\* and the pile is empty or cards[0] differs in colour from its top card and
\* is one rank below it.
FreeCellTableauLegality ==
  GameKind(gameId) = "freecell" =>
    \A x \in CanMoveArgs : \A to \in PilesOfType("tableau") :
       LET cards == ArgCards(x)
       IN  (Len(cards) > 0 /\ Len(cards) <= SupermoveCap(to)) =>
             (CanMove(gameId, piles, cards, x[3], to)
                <=> /\ \A i \in 2..Len(cards) :
                          /\ IsRed(cards[i]) # IsRed(cards[i - 1])
                          /\ cards[i].rank = cards[i - 1].rank - 1
                    /\ \/ IsEmpty(piles[to])
                       \/ /\ ~IsEmpty(piles[to])
                          /\ IsRed(cards[1]) # IsRed(piles[to][Len(piles[to])])
                          /\ cards[1].rank = piles[to][Len(piles[to])].rank - 1)

\* tryMove has put a run of two or more cards on a FreeCell tableau pile that
\* was not empty, and some cards within the capacity of an empty tableau
\* pile are rejected there because they alternate in colour without
\* descending by one.
FreeCellTableauWitness ==
  /\ GameKind(gameId) = "freecell"
  /\ MoveDone /\ PileType(last.to) = "tableau"
  /\ Len(last.cards) >= 2 /\ Len(piles[last.to]) > Len(last.cards)
  /\ \E x \in CanMoveArgs : \E to \in PilesOfType("tableau") :
       LET cards == ArgCards(x)
       IN  /\ IsEmpty(piles[to])
           /\ Len(cards) >= 2 /\ Len(cards) <= SupermoveCap(to)
           /\ \A i \in 2..Len(cards) : IsRed(cards[i]) # IsRed(cards[i - 1])
           /\ ~CanMove(gameId, piles, cards, x[3], to)

\* C12: in FreeCell canMove onto a freecell is true only for exactly one
\* card and an empty cell, and in every state reached from setup() by
\* tryMove, tryAutoMove and undo every freecell holds at most one card.
FreeCellCapacity ==
  GameKind(gameId) = "freecell" =>
    \A f \in PilesOfType("freecell") :
       /\ Len(piles[f]) <= 1
       /\ \A x \in CanMoveArgs :
            CanMove(gameId, piles, ArgCards(x), x[3], f)
              => Len(ArgCards(x)) = 1 /\ IsEmpty(piles[f])

\* tryMove has put a card into a freecell, and a single card that can be
\* picked up elsewhere is rejected by that cell, which is now full.
FreeCellCapacityWitness ==
  /\ GameKind(gameId) = "freecell"
  /\ MoveDone /\ PileType(last.to) = "freecell"
  /\ Len(piles[last.to]) = 1
  /\ \E a \in DragInputs(piles) :
       /\ a[3] = last.to
       /\ Len(DragCards(piles, a)) = 1
       /\ ~CanMove(gameId, piles, DragCards(piles, a), a[1], a[3])

\* The last operation was an onStockClick; Before is the value of the piles
\* it started from.
StockClicked == last.op = "onStockClick" /\ Len(hist) >= 2

Before == hist[Len(hist) - 1].values

After == PileValues(piles)

Reversed(cs) == [i \in 1..Len(cs) |-> cs[Len(cs) + 1 - i]]

FacedDown(cs) == [i \in 1..Len(cs) |-> [cs[i] EXCEPT !.faceUp = FALSE]]

FacedUp(cs) == [i \in 1..Len(cs) |-> [cs[i] EXCEPT !.faceUp = TRUE]]

\* C13: in Klondike an onStockClick that finds the stock empty leaves the
\* waste empty and the stock holding the former waste cards face-down in
\* reverse order (the former waste top at the bottom of the stock), and
\* changes no other pile; with the waste empty too no pile changes.
KlondikeRecycle ==
  (GameKind(gameId) = "klondike" /\ StockClicked /\ Before[Stock] = <<>>) =>
    /\ After[Waste] = <<>>
    /\ After[Stock] = FacedDown(Reversed(Before[Waste]))
    /\ \A p \in DOMAIN piles : p \notin {Stock, Waste} => After[p] = Before[p]
    /\ Before[Waste] = <<>> => After = Before

\* An onStockClick has found the stock empty and has recycled a waste pile
\* of three or more cards.
KlondikeRecycleWitness ==
  /\ GameKind(gameId) = "klondike" /\ StockClicked
  /\ Before[Stock] = <<>> /\ Len(Before[Waste]) >= 3
  /\ Len(piles[Stock]) = Len(Before[Waste])

\* The drawCount the registry constructs the variant with.
ConstructedDrawCount == IF gameId = "klondike-draw3" THEN 3 ELSE 1

\* C14: in Klondike an onStockClick that finds the stock not empty takes
\* min(drawCount, stock size) cards off the stock, top first, and puts them
\* face-up on the waste in the order taken, and changes no other pile;
\* drawCount is the 1 or 3 the variant was constructed with.
KlondikeDraw ==
  (GameKind(gameId) = "klondike" /\ StockClicked /\ Before[Stock] # <<>>) =>
    LET stock == Before[Stock]
        n == IF ConstructedDrawCount < Len(stock)
             THEN ConstructedDrawCount ELSE Len(stock)
    IN  /\ DrawCount(gameId) = ConstructedDrawCount
        /\ After[Stock] = SubSeq(stock, 1, Len(stock) - n)
        /\ After[Waste] =
             Before[Waste]
               \o FacedUp(Reversed(SubSeq(stock, Len(stock) - n + 1, Len(stock))))
        /\ \A p \in DOMAIN piles : p \notin {Stock, Waste} => After[p] = Before[p]

\* In the draw-3 game an onStockClick has found two cards in the stock and
\* has put both on the waste.
KlondikeDrawWitness ==
  /\ gameId = "klondike-draw3" /\ StockClicked
  /\ Len(Before[Stock]) = 2
  /\ piles[Stock] = <<>>
  /\ Len(piles[Waste]) = Len(Before[Waste]) + 2

\* A pile with a complete run taken off its top, the card under the run
\* turned face-up.
RunTakenOff(cs) ==
  LET rest == SubSeq(cs, 1, Len(cs) - 13)
  IN  IF Len(rest) = 0 THEN rest
      ELSE [rest EXCEPT ![Len(rest)] = [@ EXCEPT !.faceUp = TRUE]]

\* C15: in Spider an onStockClick changes no pile when the stock is empty
\* or some tableau pile is empty; otherwise it takes one card per tableau
\* pile off the stock, top first, and puts them face-up on the tableau piles
\* in registration order, and then every tableau pile on which that
\* completed a run has had the run collected into a foundation.
SpiderStockDeal ==
  (GameKind(gameId) = "spider" /\ StockClicked) =>
    LET stock == Before[Stock]
        tableau == PilesOfType("tableau")
        Dealt(t) ==
          Before[t] \o <<[stock[Len(stock) - t[2]] EXCEPT !.faceUp = TRUE]>>
    IN  IF stock = <<>> \/ \E t \in tableau : Before[t] = <<>>
        THEN After = Before
        ELSE /\ Len(stock) >= Cardinality(tableau)
             /\ After[Stock] = SubSeq(stock, 1, Len(stock) - Cardinality(tableau))
             /\ \A t \in tableau :
                  After[t] = IF KingToAceOnTop(Dealt(t))
                             THEN RunTakenOff(Dealt(t)) ELSE Dealt(t)
             /\ \A f \in PilesOfType("foundation") :
                  IF f \in last.filled
                  THEN Before[f] = <<>> /\ KingToAceOnTop(After[f])
                  ELSE After[f] = Before[f]
             /\ Cardinality(last.filled) =
                  Cardinality({t \in tableau : KingToAceOnTop(Dealt(t))})

\* An onStockClick has found cards in the stock and an empty tableau pile,
\* and has dealt nothing.
SpiderStockDealWitness ==
  /\ GameKind(gameId) = "spider" /\ StockClicked
  /\ Before[Stock] # <<>>
  /\ \E t \in PilesOfType("tableau") : Before[t] = <<>>
  /\ After = Before

\* An onStockClick has dealt a card onto every tableau pile.
SpiderStockDealt ==
  /\ GameKind(gameId) = "spider" /\ StockClicked
  /\ Len(piles[Stock]) < Len(Before[Stock])

\* C16 as stated: moveCount is never negative and no operation (tryMove,
\* tryAutoMove, onStockClick, undo) makes it smaller than it was.
MoveCountMonotonic ==
  moveCount >= 0 /\ [][moveCount' >= moveCount]_vars

\* C16 amended: moveCount is never negative and no tryMove, tryAutoMove or
\* onStockClick makes it smaller than it was; an undo that finds an entry
\* sets it back to the value it had before the action undone, which is one
\* less, and an undo that finds none leaves it alone.
MoveCountMonotonicButUndo ==
  /\ moveCount >= 0
  /\ [][/\ moveCount' >= 0
        /\ last'.op # "undo" => moveCount' >= moveCount
        /\ last'.op = "undo" =>
             moveCount' = IF last'.ret THEN moveCount - 1 ELSE moveCount]_vars

\* An undo has found an entry and has set back a moveCount that earlier
\* operations had raised.
MoveCountUndoneWitness ==
  /\ last.op = "undo" /\ last.ret
  /\ moveCount = hist[Len(hist)].moveCount
  /\ moveCount > 0

EntryValues(entry) == [p \in DOMAIN entry.piles |-> entry.piles[p].cards]

\* C18: every successful tryMove (by a drag or by tryAutoMove) and every
\* onStockClick appends exactly one entry to the undo stack, holding the
\* piles and moveCount as they were before the operation changed anything;
\* every undo that finds an entry removes exactly the last one; nothing
\* else changes the stack, which is never trimmed; so the entries are, in
\* order, the states before each action not yet undone.
UndoStackDiscipline ==
  /\ [](/\ Len(hist) = Len(undoStack) + 1
        /\ \A k \in 1..Len(undoStack) :
             /\ EntryValues(undoStack[k]) = hist[k].values
             /\ undoStack[k].moveCount = hist[k].moveCount)
  /\ [][IF (last'.op \in {"tryMove", "tryAutoMove"} /\ last'.ret)
           \/ last'.op = "onStockClick"
        THEN /\ Len(undoStack') = Len(undoStack) + 1
             /\ SubSeq(undoStack', 1, Len(undoStack)) = undoStack
             /\ EntryValues(undoStack'[Len(undoStack')]) = PileValues(piles)
             /\ undoStack'[Len(undoStack')].moveCount = moveCount
        ELSE IF last'.op = "undo" /\ last'.ret
        THEN /\ Len(undoStack) > 0
             /\ undoStack' = SubSeq(undoStack, 1, Len(undoStack) - 1)
        ELSE undoStack' = undoStack]_vars

\* After two actions an undo has removed the later entry and left the
\* earlier one.
UndoStackWitness ==
  /\ last.op = "undo" /\ last.ret
  /\ Len(undoStack) = 1
  /\ EntryValues(undoStack[1]) = hist[1].values
  /\ PileValues(piles) # hist[1].values

\* C19: an undo that finds the undo stack empty changes nothing: not a
\* pile, not a card, not moveCount, won or the stack; one that finds an
\* entry gives every pile the cards of the last entry (suit, rank and
\* faceUp, in order) and sets moveCount to the value stored in it.
UndoEffect ==
  [][last'.op = "undo" =>
       IF Len(undoStack) = 0
       THEN /\ ~last'.ret
            /\ piles' = piles /\ moveCount' = moveCount
            /\ won' = won /\ undoStack' = undoStack
       ELSE /\ last'.ret
            /\ PileValues(piles') = EntryValues(undoStack[Len(undoStack)])
            /\ moveCount' = undoStack[Len(undoStack)].moveCount]_vars

\* An undo has found the undo stack of a restored game empty and has done
\* nothing.
UndoEffectWitness ==
  /\ last.op = "undo" /\ ~last.ret
  /\ undoStack = <<>> /\ moveCount > 0

\* The piles of a type, in registration order, that accept cards from pile.
Accepting(type, cards, pile, from) ==
  SelectSeq(PileOrder(gameId),
            LAMBDA t : /\ PileType(t) = type
                       /\ t # pile
                       /\ CanMove(gameId, piles, cards, from, t))

\* The targets tryAutoMove(pile, i) may use for a face-up card at a valid
\* index, best first: foundations for the top card alone (canMove asked with
\* no source pile), then tableau piles for the cards from i up, then
\* freecells when that is one card.
AutoMoveCandidates(pile, i) ==
  LET cards == Slice(piles[pile], i)
  IN  (IF i = Len(piles[pile]) - 1
       THEN Accepting("foundation", cards, NoPile, NoPile) ELSE <<>>)
      \o Accepting("tableau", cards, pile, pile)
      \o (IF Len(cards) = 1 THEN Accepting("freecell", cards, pile, pile)
          ELSE <<>>)

\* C20: in every state, for every pile and every index (valid or not),
\* tryAutoMove does nothing when the index is out of range, the card is
\* face-down or no target accepts; otherwise it does exactly the one tryMove
\* to the first target that accepts, foundations before tableau piles before
\* freecells, each kind in registration order.
AutoMovePriority ==
  \A pile \in DOMAIN piles : \A i \in -1..Len(piles[pile]) :
     LET r == TryAutoMoveOp(gameId, Game, pile, i)
         valid == i \in 0..(Len(piles[pile]) - 1) /\ piles[pile][i + 1].faceUp
     IN  IF ~valid \/ AutoMoveCandidates(pile, i) = <<>>
         THEN ~r.ret /\ r.game = Game
         ELSE LET target == AutoMoveCandidates(pile, i)[1]
                  m == TryMoveOp(gameId, Game, Slice(piles[pile], i), pile, target)
              IN  /\ r.ret /\ r.to = target
                  /\ m.ret /\ r.game = m.game
                  /\ r.game.moveCount = moveCount + 1
                  /\ Len(r.game.undoStack) = Len(undoStack) + 1

\* A tap has sent a card to a foundation although a tableau pile would have
\* taken it too.
AutoMovePriorityWitness ==
  /\ last.op = "tryAutoMove" /\ last.ret /\ Len(hist) >= 2
  /\ PileType(last.to) = "foundation"
  /\ \E t \in PilesOfType("tableau") :
       /\ t # last.from
       /\ CanMove(gameId, Before, <<TopCard(Before[last.from])>>, last.from, t)

\* The piles with every foundation of full holding 13 cards and every other
\* foundation holding 12.
WithFoundations(full) ==
  LET run == SubSeq(CreateDeck(gameId), 1, 13)
  IN  [p \in DOMAIN piles |->
         IF p \in full THEN run
         ELSE IF PileType(p) = "foundation" THEN SubSeq(run, 1, 12)
         ELSE piles[p]]

\* C21: the variant has 4 foundations (8 in Spider), and isWon() is true
\* exactly when every one of them holds 13 cards: in every reachable state,
\* and for every choice of which foundations are full. (isWon() reads the
\* piles and assigns nothing.)
IsWonIffAllFull ==
  LET fs == PilesOfType("foundation")
  IN  /\ Cardinality(fs) = IF GameKind(gameId) = "spider" THEN 8 ELSE 4
      /\ IsWon(gameId, piles) <=> \A f \in fs : Len(piles[f]) = 13
      /\ \A full \in SUBSET fs :
           IsWon(gameId, WithFoundations(full)) <=> full = fs

\* A move has filled the last foundation: the game is won.
IsWonWitness ==
  /\ MoveDone /\ IsWon(gameId, piles)
  /\ \A f \in PilesOfType("foundation") : Len(piles[f]) = 13

\* In Spider canMove is false for every destination that is not a tableau
\* pile, whatever the cards and the source, and findAutoMoveToFoundation
\* finds no target for any card.
SpiderRejectsNonTableau ==
  GameKind(gameId) = "spider" =>
    /\ \A x \in CanMoveArgs : \A to \in DOMAIN piles :
         PileType(to) # "tableau" =>
           ~CanMove(gameId, piles, ArgCards(x), x[3], to)
    /\ \A p \in DOMAIN piles : \A i \in 1..Len(piles[p]) :
         FindAutoMoveToFoundation(gameId, piles, piles[p][i]) = NoPile

\* This step's tryMove, tryAutoMove or onStockClick has not made the stock
\* longer, and a successful move went to a tableau pile and left the stock
\* as it was.
SpiderMovesSpareStock ==
  /\ last'.op # "undo" => Len(piles'[Stock]) <= Len(piles[Stock])
  /\ last'.op \in {"tryMove", "tryAutoMove"} => piles'[Stock] = piles[Stock]
  /\ last'.ret /\ last'.op \in {"tryMove", "tryAutoMove"} =>
       PileType(last'.to) = "tableau"

\* This step's move or stock deal has filled foundation f, which was empty,
\* with the 13 cards of a run completed on a tableau pile: cards of that
\* pile, with the cards moved or the card dealt on top.
CollectedInto(f) ==
  /\ last'.op \in {"tryMove", "tryAutoMove", "onStockClick"}
  /\ f \in last'.filled
  /\ piles[f] = <<>>
  /\ Len(piles'[f]) = 13
  /\ KingToAceOnTop(piles'[f])
  /\ \E t \in PilesOfType("tableau") :
       \A i \in 1..13 : \E k \in 1..Len(piles[t]) :
          \/ piles'[f][i].id = piles[t][k].id
          \/ /\ last'.op = "onStockClick"
             /\ piles'[f][i].id = TopCard(piles'[f]).id
             /\ \E c \in 1..Len(piles[Stock]) :
                  piles'[f][i].id = piles[Stock][c].id
          \/ \E c \in 1..Len(last'.cards) : piles'[f][i].id = last'.cards[c]

TableauTopsFaceUp ==
  GameKind(gameId) \in {"klondike", "spider"} =>
    \A p \in PilesOfType("tableau") :
       ~IsEmpty(piles[p]) => TopCard(piles[p]).faceUp

\* A move has taken the face-up cards off a tableau pile whose next card
\* was face-down; that card is on top now, face-up.
TableauTopsWitness ==
  /\ GameKind(gameId) \in {"klondike", "spider"}
  /\ MoveDone /\ PileType(last.from) = "tableau"
  /\ ~IsEmpty(piles[last.from])
  /\ Len(piles[last.from]) = Len(Before[last.from]) - Len(last.cards)
  /\ ~Before[last.from][Len(piles[last.from])].faceUp
  /\ TopCard(piles[last.from]).faceUp

\* C24: in FreeCell every card of every pile is face-up in every reachable
\* state; onMove returns the piles it is given, whatever the move; and a
\* tryMove that returned true (called by a drag or by tryAutoMove) has taken
\* the moved cards off the top of fromPile, put them in the same order on
\* top of toPile, and left every other pile as it was, so that the source's
\* new top card is the card that lay under the moved ones.
FreeCellMoveFrame ==
  /\ [](GameKind(gameId) = "freecell" =>
          /\ \A p \in DOMAIN piles : \A i \in 1..Len(piles[p]) :
               piles[p][i].faceUp
          /\ \A x \in CanMoveArgs : \A to \in DOMAIN piles :
               OnMove(gameId, piles, ArgCards(x), x[1], to) = piles)
  /\ [][GameKind(gameId) = "freecell" /\ last'.ret
          /\ last'.op \in {"tryMove", "tryAutoMove"} =>
          LET from == last'.from
              to == last'.to
              rest == Len(piles[from]) - Len(last'.cards)
          IN  /\ rest >= 0 /\ from # to
              /\ Ids(SubSeq(piles[from], rest + 1, Len(piles[from])))
                   = last'.cards
              /\ piles'[from] = SubSeq(piles[from], 1, rest)
              /\ piles'[to] =
                   piles[to] \o SubSeq(piles[from], rest + 1, Len(piles[from]))
              /\ \A p \in DOMAIN piles :
                   p \notin {from, to} => piles'[p] = piles[p]
              /\ rest > 0 => TopCard(piles'[from]) = piles[from][rest]]_vars

\* A FreeCell move has taken one card from a tableau pile to another; the
\* card that lay under it is the source's top card now, and no freecell or
\* foundation differs from what it was.
FreeCellMoveFrameWitness ==
  /\ GameKind(gameId) = "freecell" /\ MoveDone /\ Len(last.cards) = 1
  /\ PileType(last.from) = "tableau" /\ PileType(last.to) = "tableau"
  /\ Len(Before[last.from]) >= 2
  /\ CardValue(TopCard(piles[last.from]))
       = Before[last.from][Len(Before[last.from]) - 1]
  /\ \A p \in DOMAIN piles :
       PileType(p) \in {"freecell", "foundation"} => After[p] = Before[p]

\* The shuffles setup() is examined with for game g: the one that changes
\* nothing, the one that reverses the deck, and those of the games explored.
SetupPerms(g) ==
  LET n == DeckSize(g)
  IN  {[i \in 1..n |-> i], [i \in 1..n |-> n + 1 - i]}
        \cup {sc.perm : sc \in {x \in AllScenarios \cup FreeCellScenarios :
                                  x.gameId = g}}

\* Pile p of P holds sizes[i + 1] cards when it is tableau pile i, and of
\* its cards the top one is face-up; the others are face-up iff allUp.
TableauDealt(P, sizes, allUp) ==
  /\ {p \in DOMAIN P : PileType(p) = "tableau"}
       = {<<"tableau", i>> : i \in 0..(Len(sizes) - 1)}
  /\ \A i \in 0..(Len(sizes) - 1) :
       LET cs == P[<<"tableau", i>>]
       IN  /\ Len(cs) = sizes[i + 1]
           /\ \A j \in 1..Len(cs) : cs[j].faceUp <=> (allUp \/ j = Len(cs))

\* P has n piles of the type, all empty.
EmptyPilesOf(P, type, n) ==
  /\ Cardinality({p \in DOMAIN P : PileType(p) = type}) = n
  /\ \A p \in DOMAIN P : PileType(p) = type => P[p] = <<>>

\* P has one stock pile, of n cards, all face-down.
StockDealt(P, n) ==
  /\ {p \in DOMAIN P : PileType(p) = "stock"} = {Stock}
  /\ Len(P[Stock]) = n
  /\ \A j \in 1..n : ~P[Stock][j].faceUp

\* The layout of game g right after setup(), as C25 states it.
SetupLayoutOf(g, S) ==
  LET P == S.piles
      all == CardsOf(P, PileOrder(g), 1)
      suits == {all[k].suit : k \in 1..Len(all)}
  IN  /\ S.moveCount = 0 /\ ~S.won /\ S.undoStack = <<>>
      /\ GameKind(g) = "klondike" =>
           /\ TableauDealt(P, <<1, 2, 3, 4, 5, 6, 7>>, FALSE)
           /\ EmptyPilesOf(P, "foundation", 4)
           /\ StockDealt(P, 24)
           /\ EmptyPilesOf(P, "waste", 1)
           /\ EmptyPilesOf(P, "freecell", 0)
           /\ Len(all) = 52
      /\ GameKind(g) = "spider" =>
           /\ TableauDealt(P, <<6, 6, 6, 6, 5, 5, 5, 5, 5, 5>>, FALSE)
           /\ EmptyPilesOf(P, "foundation", 8)
           /\ StockDealt(P, 50)
           /\ EmptyPilesOf(P, "waste", 0)
           /\ EmptyPilesOf(P, "freecell", 0)
           /\ Len(all) = 104
           /\ Cardinality(suits) = SuitCount(g)
           /\ SuitCount(g) \in {1, 2, 4}
           /\ \A s \in suits : \A r \in 1..13 :
                CountOf(all, <<s, r>>) = 8 \div SuitCount(g)
      /\ GameKind(g) = "freecell" =>
           /\ TableauDealt(P, <<7, 7, 7, 7, 6, 6, 6, 6>>, TRUE)
           /\ EmptyPilesOf(P, "freecell", 4)
           /\ EmptyPilesOf(P, "foundation", 4)
           /\ EmptyPilesOf(P, "stock", 0)
           /\ EmptyPilesOf(P, "waste", 0)
           /\ Len(all) = 52

\* C25: whatever the shuffle, the game createGame constructs (setup() run)
\* has the layout of its variant: Klondike 7 tableau piles of 1..7 cards
\* with the top one face-up, 4 empty foundations, a stock of 24 face-down
\* cards and an empty waste; Spider 104 cards, each (suit, rank) of the
\* suits used 8/suitCount times, 10 tableau piles of 6,6,6,6,5,5,5,5,5,5
\* cards with the top one face-up, 8 empty foundations and a stock of 50
\* face-down cards; FreeCell 8 tableau piles of 7,7,7,7,6,6,6,6 cards all
\* face-up, 4 empty freecells and 4 empty foundations; moveCount 0, won
\* false, the undo stack empty.  A game that has just started without a save
\* is in such a state.
SetupLayout ==
  last.op = "start" =>
    /\ \A g \in GameIds : \A perm \in SetupPerms(g) :
         SetupLayoutOf(g, CreateGame(g, perm))
    /\ moveCount = 0 => SetupLayoutOf(gameId, Game)

\* A Spider game has just been set up: nothing moved yet, 50 cards in stock.
SetupLayoutWitness ==
  /\ last.op = "start" /\ moveCount = 0 /\ undoStack = <<>>
  /\ GameKind(gameId) = "spider" /\ Len(piles[Stock]) = 50

\* Ids the registry does not hold.
UnknownIds == {"pyramid", "Klondike", "spider", "spider-3"}

\* init() found a record that _loadSave() let through.
StartedWithLoaded ==
  last.op = "start" /\ stored # NoSave /\ LoadSave(stored).data # NoSave

\* C26: createGame with an id the registry does not hold throws and yields
\* no game, whatever the shuffle would have been; and when the application
\* has started on a saved record with such an id, the game is a freshly set
\* up 'klondike' game, and the storage no longer holds that record but the
\* one newGame() wrote for the fresh game.
UnknownGameFallsBack ==
  /\ UnknownIds \cap GameIds = {}
  /\ \A id \in UnknownIds :
       CreateGameById(id, KlondikeFresh_perm) = [threw |-> TRUE, game |-> <<>>]
  /\ \A id \in GameIds :
       ~CreateGameById(id, [i \in 1..DeckSize(id) |-> i]).threw
  /\ (StartedWithLoaded /\ stored[1].gameId \notin GameIds) =>
       /\ gameId = "klondike"
       /\ SetupLayoutOf("klondike", Game)
       /\ \E b \in Boots :
            b.storage = stored /\ Game = CreateGame("klondike", b.perm)
       /\ storage # stored
       /\ storage = <<SaveRecord("klondike", Game)>>

\* The application has started on a record of the game 'pyramid'.
UnknownGameWitness ==
  /\ StartedWithLoaded
  /\ stored[1].gameId = "pyramid" /\ ~stored[1].won
  /\ gameId = "klondike" /\ moveCount = 0

\* C27 as stated: when the application has started on a record that
\* _loadSave() let through and whose pile ids are not exactly those of the
\* game constructed for its variant, the record has been rejected or
\* ignored as a whole: no pile holds the record's cards while another holds
\* the cards setup() dealt it, and the piles together hold as many cards as
\* the variant's deck.
MismatchRejected ==
  (/\ StartedWithLoaded
   /\ stored[1].gameId \in GameIds
   /\ DOMAIN stored[1].piles # PileIds(stored[1].gameId)) =>
    /\ Len(AllCards) = DeckSize(gameId)
    /\ \/ SetupLayoutOf(gameId, Game)
       \/ \A p \in DOMAIN piles :
            /\ p \in DOMAIN stored[1].piles
            /\ PileValues(piles)[p] = stored[1].piles[p].cards

\* What the code does instead: the piles the record names hold the record's
\* cards, the others hold what setup() dealt them.
MismatchMixed ==
  /\ StartedWithLoaded
  /\ stored[1].gameId \in GameIds
  /\ \E p \in DOMAIN piles :
       /\ p \in DOMAIN stored[1].piles
       /\ PileValues(piles)[p] = stored[1].piles[p].cards
       /\ piles[p] # <<>>
  /\ \E b \in Boots : \E q \in DOMAIN piles :
       /\ b.storage = stored
       /\ q \notin DOMAIN stored[1].piles
       /\ piles[q] = CreateGame(gameId, b.perm).piles[q]
       /\ piles[q] # <<>>
  /\ Len(AllCards) # DeckSize(gameId)

\* The new shuffles a restore is examined with: the one that changes
\* nothing and the one that reverses the deck.
RestorePerms(g) ==
  LET n == DeckSize(g)
  IN  {[i \in 1..n |-> i], [i \in 1..n |-> n + 1 - i]}

\* C28: in every reachable state of every variant, the storage holds the
\* record _saveGame() writes for the state, unless the game has just been
\* won (the save is cleared).  If the game is not won, _loadSave() returns
\* that record untouched, and _restoreGame (alone, and as init() calls it),
\* whatever the new shuffle, yields a game whose snapshot() equals the
\* record's piles and the current snapshot(), whose moveCount is the saved
\* one and whose undo stack is empty.  If the game is won, _loadSave()
\* returns nothing and init() starts a fresh 'klondike' game.
SaveRoundTrip ==
  LET rec == SaveRecord(gameId, Game)
  IN  /\ storage # NoSave => storage = <<rec>>
      /\ storage = NoSave => won
      /\ ~won =>
           /\ LoadSave(<<rec>>) = [data |-> <<rec>>, storage |-> <<rec>>]
           /\ \A perm \in RestorePerms(gameId) :
                LET R == RestoreGame(rec, perm)
                    A == InitApp(<<rec>>, perm)
                IN  /\ Snapshot(R.piles) = rec.piles
                    /\ Snapshot(R.piles) = Snapshot(piles)
                    /\ R.moveCount = rec.moveCount
                    /\ R.moveCount = moveCount
                    /\ R.undoStack = <<>>
                    /\ A.gameId = gameId /\ A.game = R /\ A.storage = <<rec>>
      /\ won =>
           /\ rec.won
           /\ LoadSave(<<rec>>).data = NoSave
           /\ \A perm \in RestorePerms("klondike") :
                LET A == InitApp(<<rec>>, perm)
                IN  A.gameId = "klondike" /\ SetupLayoutOf("klondike", A.game)

\* A move has been made and saved in a game that is not won; the undo stack
\* holds entries that the record does not carry.
SaveRoundTripWitness ==
  /\ MoveDone /\ ~won /\ undoStack # <<>> /\ moveCount > 0
  /\ storage = <<SaveRecord(gameId, Game)>>
  /\ LoadSave(storage).data = storage

\* The drag holds a Card object that no pile of the current game holds, or
\* its fromPile is a pile of a game that newGame() has replaced.
StaleDrag(ds) ==
  ds.detached \/ \E i \in 1..Len(ds.cards) : ds.cards[i].id < 0

\* The step is an _onPointerUp that ends a drag.
DragReleased == dragState # NoDrag /\ dragState' = NoDrag

\* C29: under every interleaving of the input events, each tryMove that
\* _onPointerUp issues is called with a fromPile of the current game and with
\* cards that are exactly the suffix of fromPile starting at cards[0]
\* (indexOf(cards[0]) is not -1), so that the cards canMove checked are the
\* cards relocated; and the release of a drag started before an undo or a new
\* game leaves every pile as it was.
ResidentMoves ==
  [][DragReleased =>
       LET ds == dragState[1]
           cardIndex == IndexOf(piles[ds.fromPile], ds.cards[1])
       IN  /\ last'.op = "tryMove" =>
                /\ ~ds.detached
                /\ cardIndex # -1
                /\ ds.cards = Slice(piles[ds.fromPile], cardIndex)
                /\ last'.ret => last'.cards = Ids(ds.cards)
           /\ StaleDrag(ds) => piles' = piles]_vars

\* A pile of the current game holds a Card object of the game that newGame()
\* replaced: a tryMove took it from a pile of that game.
ForeignCardInGame ==
  \E p \in DOMAIN piles : \E i \in 1..Len(piles[p]) : piles[p][i].id < 0

\* C30: between two animation frames, however many requestRender calls are
\* made (by moves, stock clicks, undo, pointer moves, resize handling and the
\* animation loop), at most one render callback is scheduled, so that
\* requestRender redraws the board at most once per frame.
RenderCoalesced == scheduled <= 1

\* Two callbacks of requestRender wait for the same frame: _onResize set
\* renderRequested to false after the first was scheduled, and a later
\* requestRender scheduled the second.
TwoRendersScheduled == renderRequested /\ scheduled = 2

\* The sizes of the images the Map in use holds.
SizesInUse ==
  {caches[imageCache][k] : k \in ImageKeys} \ {NoImage}

\* C31: for any sequence of overlapping setSize calls with different sizes,
\* whose image loads complete in any order, once every returned promise has
\* settled the imageCache in use holds the images generated for the size
\* requested last (no image of another size), and at no time does the cache
\* in use hold images of two different sizes.
CacheSwapLatest ==
  /\ Cardinality(SizesInUse) <= 1
  /\ loads = {} => SizesInUse \subseteq {cardSize}

\* Every promise has settled and the Map in use holds the images of an
\* earlier setSize call: its loads finished after those of the last call.
StaleCacheInUse ==
  /\ loads = {}
  /\ Len(caches) > 2
  /\ imageCache # Len(caches)
  /\ \A k \in ImageKeys : caches[imageCache][k] \notin {cardSize, NoImage}

\* The game was created by createGame at start-up, not restored from a save.
FreshGame == stored = NoSave

\* C32: in a freshly created game (createGame, not restored from a save),
\* after any sequence of tryMove, tryAutoMove, onStockClick and undo,
\* moveCount equals the number of entries on the undo stack.
MoveCountIsUndoDepth == FreshGame => moveCount = Len(undoStack)

\* A fresh game in which an undo has popped one of two entries.
MoveCountIsUndoDepthWitness ==
  FreshGame /\ last.op = "undo" /\ last.ret /\ Len(undoStack) = 1

\* How many face-down cards a pile starts with, from the bottom.
RECURSIVE FaceDownPrefix(_)
FaceDownPrefix(cs) ==
  IF Len(cs) = 0 \/ cs[1].faceUp THEN 0 ELSE 1 + FaceDownPrefix(Tail(cs))

\* All face-down cards of the pile lie below all face-up ones, and the
\* face-up ones alternate colour and descend in rank by one.
KlondikeShape(cs) ==
  LET up == Slice(cs, FaceDownPrefix(cs))
  IN  /\ \A i \in 1..Len(up) : up[i].faceUp
      /\ IsAlternatingRun(up)

\* C33: in Klondike, in every state reached from setup() through the input
\* layer (drags of a face-up card with everything above it, tap auto-moves,
\* stock clicks) and undo, each tableau pile has its face-down cards below
\* its face-up cards and its face-up cards form a run that alternates colour
\* and descends by one; so every sequence of cards that can be dragged off a tableau pile,
\* and with it every one canMove accepts, is a valid run.
KlondikeTableauShape ==
  GameKind(gameId) = "klondike" =>
    /\ \A p \in PilesOfType("tableau") : KlondikeShape(piles[p])
    /\ \A pk \in Pickups(piles) :
         PileType(pk[1]) = "tableau" => IsAlternatingRun(Slice(piles[pk[1]], pk[2]))

\* A Klondike tableau pile whose face-up cards are not a run: the release of
\* a drag that was held across an undo has moved the pile's last card, not
\* the card canMove was asked about.
KlondikeRunBroken ==
  /\ GameKind(gameId) = "klondike"
  /\ last.op = "tryMove" /\ last.ret
  /\ PileType(last.to) = "tableau"
  /\ ~KlondikeShape(piles[last.to])

\* The cards are of one suit and their ranks are 1, 2, ..., n from the bottom.
AceUpwards(cs) ==
  \A i \in 1..Len(cs) : cs[i].rank = i /\ cs[i].suit = cs[1].suit

\* C34: in Klondike and FreeCell, in every reachable state each foundation
\* pile holds cards of a single suit whose ranks, from bottom to top, are
\* exactly 1, 2, ..., n with n the size of the pile; also after a move that
\* takes a card off a foundation and after an undo.
FoundationOrder ==
  GameKind(gameId) \in {"klondike", "freecell"} =>
    \A p \in PilesOfType("foundation") : AceUpwards(piles[p])

\* A foundation pile that does not start with an Ace: the release of a drag
\* that was held across an undo has moved the source pile's last card onto
\* it, not the Ace canMove was asked about.
FoundationOrderBroken ==
  /\ GameKind(gameId) = "klondike"
  /\ last.op = "tryMove" /\ last.ret
  /\ PileType(last.to) = "foundation"
  /\ ~AceUpwards(piles[last.to])

\* The cards are thirteen of one suit, from the King at the bottom to the Ace.
KingToAce(cs) ==
  /\ Len(cs) = RunLength
  /\ \A i \in 1..Len(cs) : cs[i].rank = KingRank + 1 - i /\ cs[i].suit = cs[1].suit

\* C35: in Spider, in every state reached from setup() through the input
\* layer's moves, stock clicks and undo, each foundation pile is empty or
\* holds exactly 13 cards that form a same-suit run from the King (bottom) to
\* the Ace (top); and no move takes a card out of a foundation.
SpiderFoundationRuns ==
  /\ [](GameKind(gameId) = "spider" =>
          \A f \in PilesOfType("foundation") :
             IsEmpty(piles[f]) \/ KingToAce(piles[f]))
  /\ [][(GameKind(gameId) = "spider"
         /\ last'.op \in {"tryMove", "tryAutoMove"}) =>
          \A f \in PilesOfType("foundation") :
             Len(piles'[f]) >= Len(piles[f])]_vars

\* A drag has taken the Ace off a Spider foundation that held a collected
\* run: twelve cards are left on it.
SpiderFoundationShort ==
  /\ GameKind(gameId) = "spider"
  /\ last.op = "tryMove" /\ last.ret
  /\ PileType(last.from) = "foundation"
  /\ Len(piles[last.from]) = RunLength - 1

\* C36: in every state reached when an orchestrator operation (tryMove,
\* tryAutoMove, onStockClick, undo) has completed, if isWon() is true then
\* state.won is true; also in Spider, where onStockClick can collect runs but
\* does not call isWon().
WinDetected == IsWon(gameId, piles) => won

\* A move has filled the last foundation: isWon() is true, won is set and
\* the save is cleared.
WinDetectedWitness ==
  /\ last.op \in {"tryMove", "tryAutoMove"} /\ last.ret
  /\ PileType(last.to) = "foundation"
  /\ IsWon(gameId, piles) /\ won
  /\ storage = NoSave

\* C37: a stock click that leaves every pile as it was (Klondike with stock
\* and waste both empty; Spider with an empty stock or with an empty tableau
\* pile) does not increment moveCount and pushes no undo entry, so that
\* every undo that pops an entry changes at least one pile.
OnlyEffectiveCounted ==
  /\ [][(last'.op = "onStockClick" /\ PileValues(piles') = PileValues(piles))
          => moveCount' = moveCount /\ undoStack' = undoStack]_vars
  /\ [][(last'.op = "undo" /\ last'.ret)
          => PileValues(piles') # PileValues(piles)]_vars

\* A stock click has changed no pile, and yet the move count is one higher
\* and the undo stack holds an entry equal to the piles as they are.
IdleStockClickCounted ==
  /\ last.op = "onStockClick"
  /\ Len(undoStack) > 0
  /\ undoStack[Len(undoStack)].piles = Snapshot(piles)
  /\ moveCount = undoStack[Len(undoStack)].moveCount + 1

\* C38: in every Spider state the stock size is a multiple of the number of
\* tableau piles (10), so an onStockClick that passes the guard (stock not
\* empty, no tableau pile empty) takes exactly one card per tableau pile off
\* the stock, the stock never running out inside the deal loop.
SpiderDealsComplete ==
  GameKind(gameId) = "spider" =>
    LET n == Cardinality(PilesOfType("tableau"))
    IN  /\ n = 10
        /\ Len(piles[Stock]) % n = 0
        /\ (/\ StockClicked
            /\ Before[Stock] # <<>>
            /\ \A t \in PilesOfType("tableau") : Before[t] # <<>>)
             => /\ Len(Before[Stock]) >= n
                /\ Len(After[Stock]) = Len(Before[Stock]) - n

\* An onStockClick has passed the guard with a stock of 50 and has left 40.
SpiderDealsCompleteWitness ==
  /\ GameKind(gameId) = "spider" /\ StockClicked
  /\ Len(Before[Stock]) = 50
  /\ \A t \in PilesOfType("tableau") : Before[t] # <<>>
  /\ Len(piles[Stock]) = 40

====
